---- MODULE Spec2Model ----
(***************************************************************************)
(* solace: a single-channel chat server (solace-server), its response and  *)
(* request records (solace-protocol) and the framed codec.                 *)
(*                                                                         *)
(* Text is modelled as a sequence of pieces.  Text that comes from a       *)
(* client (message, topic, nickname) is a sequence of one-character        *)
(* pieces, except that a run of U8Max + 1 letters is written as the one    *)
(* piece LongRun; ByteLen is its length in bytes.  A literal of a format!  *)
(* string is one piece.                                                    *)
(***************************************************************************)
EXTENDS Integers, Sequences, FiniteSets, TLC

VARIABLES
    clients,   \* Server.clients: address -> nickname (the Tx is the mailbox)
    topic,     \* Server.topic
    lock,      \* holder of the Arc<Mutex<Server>>, 0 when free
    pc,        \* position of each handle_client task
    nick,      \* Client.nick of each task
    conn,      \* state of the peer's end of each TCP stream
    mailbox,   \* the unbounded channel of each task (Client.rx)
    out,       \* responses written so far on each task's outbound half
    cur,       \* the request a task has decoded and acknowledged
    reqs,      \* the frames each task has taken from its inbound half, in order
    cbytes,    \* codec: bytes of the input under test
    cpos,      \* codec: number of bytes fed one at a time so far
    cacc,      \* codec: accumulator of the byte-at-a-time decoder
    cres,      \* codec: results of the byte-at-a-time decoder
    cchunk,    \* codec: result of the single-chunk run, <<>> before it ran
    crec,      \* codec: the record whose encoding is under test
    cbuf,      \* codec: read buffer after the whole input arrived in one read
    cout,      \* codec: what successive calls on cbuf have yielded
    ptext,     \* parser: the message text under test, a sequence of chars
    ptokens,   \* parser: outcome of solace-message-parser's Lexer::lex
    past,      \* parser: outcome of solace-message-parser's Parser::parse
    wtokens,   \* parser: outcome of wangerz-message-parser's Lexer::lex
    wast,      \* parser: outcome of wangerz-message-parser's Parser::parse
    pquery,    \* parser: the last AstMessage::node_at_pos call and its result
    smail,     \* select: the events queued in the session's mailbox
    stook,     \* select: the events the mailbox arm has taken, in order
    ssent,     \* select: the number of events sent to the mailbox so far
    history,   \* client: ChatWindow.history.entries
    wsent,     \* client: the requests handed to ChatWindow.req, in order
    wstate,    \* client: "running", "panicked" or "exited" (the process)
    wlast,     \* client: the last call of ChatWindow::write or ::read
    wtopic,    \* client: ChatWindow.topic
    wnick,     \* client: ChatWindow.prompt.nick
    prompt,    \* prompt: the Prompt of the line editor
    plast      \* prompt: the last key pressed and whether it panicked

srvVars == <<clients, topic, lock, pc, nick, conn, mailbox, out, cur, reqs>>
codecVars == <<cbytes, cpos, cacc, cres, cchunk, crec, cbuf, cout>>
parserVars == <<ptext, ptokens, past, wtokens, wast, pquery>>
selectVars == <<smail, stook, ssent>>
termVars == <<history, wsent, wstate, wlast, wtopic, wnick, prompt, plast>>
vars == <<clients, topic, lock, pc, nick, conn, mailbox, out, cur, reqs,
          cbytes, cpos, cacc, cres, cchunk, crec, cbuf, cout,
          ptext, ptokens, past, wtokens, wast, pquery,
          smail, stook, ssent,
          history, wsent, wstate, wlast, wtopic, wnick, prompt, plast>>

(***************************************************************************)
(* Bounds                                                                  *)
(***************************************************************************)
MaxSessions == 2
MaxReq == 2
MaxClose == 1

Addrs == 1..MaxSessions
NoAddr == 0

(***************************************************************************)
(* Response codes (solace-protocol/src/code.rs)                            *)
(***************************************************************************)
RES_ACK_MESSAGE == 0
RES_WELCOME == 1
RES_YOUR_NICK == 2
RES_HELLO == 3
RES_GOODBYE == 4
RES_PONG == 5
RES_DISCONNECTED == 6
RES_CHAT_MESSAGE_OK == 200
RES_NICK_CHANGE == 201
RES_TOPIC_CHANGE == 202
RES_TOPIC_CHANGE_MESSAGE == 203
RES_COMMAND_LIST == 204
RES_NICK_LIST == 205
RES_WHO_IS == 206
ERR_NICK_IN_USE == 302
ERR_WHO_IS == 303

(***************************************************************************)
(* Text helpers                                                            *)
(***************************************************************************)
IsSpace(c) == c = " "

RECURSIVE TrimStart(_)
TrimStart(s) ==
    IF s = <<>> THEN <<>>
    ELSE IF IsSpace(Head(s)) THEN TrimStart(Tail(s)) ELSE s

RECURSIVE TrimEnd(_)
TrimEnd(s) ==
    IF s = <<>> THEN <<>>
    ELSE IF IsSpace(s[Len(s)]) THEN TrimEnd(SubSeq(s, 1, Len(s) - 1)) ELSE s

\* variant: only leading whitespace is removed
TrimStartOnly(s) == TrimStart(s)

\* str::trim
Trim(s) == TrimEnd(TrimStart(s))

Digits == <<"0", "1", "2", "3", "4", "5", "6", "7", "8", "9">>

\* u32::to_string
RECURSIVE to_string(_)
to_string(n) ==
    IF n < 10 THEN <<Digits[n + 1]>>
    ELSE to_string(n \div 10) \o <<Digits[(n % 10) + 1]>>

\* [String]::join(" ")
RECURSIVE Join(_)
Join(ss) ==
    IF ss = <<>> THEN <<>>
    ELSE IF Len(ss) = 1 THEN ss[1]
    ELSE ss[1] \o <<" ">> \o Join(Tail(ss))

\* the orders in which a HashMap of the addresses S may be iterated
Orders(S) ==
    {o \in [1..Cardinality(S) -> S] : \A i, j \in 1..Cardinality(S) : o[i] = o[j] => i = j}

\* SocketAddr as Display text
AddrText(a) == <<"addr", to_string(a)>>

(***************************************************************************)
(* Inputs                                                                  *)
(***************************************************************************)
U8Max == 255
NickLen == 16

Letters == <<"A", "B", "C", "D">>

\* Client::generate_nick: 16 letters of A..Z; the draw of the task at
\* address a
GenNicks(a) == {[i \in 1..NickLen |-> Letters[a]]}

\* one piece that stands for U8Max + 1 letters L
LongRun == "L*"
LongNick == <<LongRun>>

PieceLen(p) == IF p = LongRun THEN U8Max + 1 ELSE 1

\* String::len of client text
RECURSIVE ByteLen(_)
ByteLen(s) == IF s = <<>> THEN 0 ELSE PieceLen(Head(s)) + ByteLen(Tail(s))

\* a decoded Request; the decoder accepts every version byte
ReqV(version, kind, id, text) ==
    [version |-> version, kind |-> kind, id |-> id, text |-> text]

\* Request::new(id, message): version 1
Req(kind, id, text) == ReqV(1, kind, id, text)

\* the requests the clients send: Request::new(id, message), and a frame
\* that carries another version byte
Requests ==
    {Req("Ping", 7, <<>>),
     ReqV(2, "Ping", 11, <<>>),
     Req("Message", 7, <<"h", "i">>),
     Req("Message", 11, <<>>),
     Req("NewTopic", 11, <<" ", "c", " ">>),
     Req("NewTopic", 7, <<" ">>),
     Req("NewNick", 7, <<" ", "G", " ">>),
     Req("NewNick", 11, LongNick),
     Req("WhoIs", 7, <<"G">>),
     Req("Disconnect", 11, <<>>)}

\* a terminated frame that does not decode to a Request
Garbage == Req("Garbage", 0, <<>>)

NoReq == Req("None", 0, <<>>)

(***************************************************************************)
(* Responses and hub events                                                *)
(***************************************************************************)
\* ResponseBuilder::new(code, message).with_origin(origin).build(); the
\* builder's request_id is never set by the server and stays 0.  The
\* timestamp is the wall clock and is left to the codec part.  cause is
\* provenance (issuer and ordinal of the request), not a wire field.
Build(code, message, origin, cause) ==
    [version |-> 1, request_id |-> 0, code |-> code,
     origin_length |-> ByteLen(origin), origin |-> origin, message |-> message,
     cause |-> cause]

\* u8::try_from(origin.len()).expect(..) in build
BuildPanics(origin) == ByteLen(origin) > U8Max

\* enum Message, one shape for all variants; from is a MessageClient
Event(type, addr, n, text, cause) ==
    [type |-> type, addr |-> addr, nick |-> n, text |-> text, cause |-> cause]

\* a task owns its receiver from Client::new until handle_client returns
RxLive(a) == pc[a] \notin {"new", "done", "failed", "panicked"}

\* tx.send on an unbounded channel; Err (ignored) once the receiver is gone
SendTo(mb, a, ev) == IF RxLive(a) THEN [mb EXCEPT ![a] = Append(@, ev)] ELSE mb

\* Server::broadcast_to
broadcast_to(ev, to) ==
    IF to \in DOMAIN clients THEN SendTo(mailbox, to, ev) ELSE mailbox

\* Server::broadcast_all over the membership map cl
broadcast_all(cl, ev) ==
    [a \in Addrs |-> IF a \in DOMAIN cl /\ RxLive(a)
                     THEN Append(mailbox[a], ev) ELSE mailbox[a]]

\* variant: the sender is not skipped
broadcast_others_all(cl, ev, sender) ==
    [a \in Addrs |-> IF a \in DOMAIN cl /\ RxLive(a)
                     THEN Append(mailbox[a], ev) ELSE mailbox[a]]

\* Server::broadcast_others over the membership map cl
broadcast_others(cl, ev, sender) ==
    [a \in Addrs |-> IF a \in DOMAIN cl /\ a # sender /\ RxLive(a)
                     THEN Append(mailbox[a], ev) ELSE mailbox[a]]

\* Server::get_by_nick: the addresses find_map may return
get_by_nick(n) ==
    IF \E a \in DOMAIN clients : clients[a] = n
    THEN {a \in DOMAIN clients : clients[a] = n}
    ELSE {NoAddr}

\* variant: only the first nickname of the iteration is listed
NickListTextFirstOnly(order) == clients[order[1]]

\* server.clients.values().map(|v| v.0.clone()).collect().join(" ")
NickListText(order) == Join([i \in 1..Len(order) |-> clients[order[i]]])

\* variant: the hub entry keeps the old nickname
StoreNickNowhere(cl, a, n) == cl

\* variant: a nickname that another entry holds is not stored
StoreNickIfFree(cl, a, n) ==
    IF \E b \in (DOMAIN cl) \ {a} : cl[b] = n THEN cl ELSE [cl EXCEPT ![a] = n]

\* trimmed.clone_into(&mut server.clients.get_mut(&addr).unwrap().0)
StoreNick(cl, a, n) == [cl EXCEPT ![a] = n]

Remove(cl, a) == [b \in (DOMAIN cl) \ {a} |-> cl[b]]
Insert(cl, a, n) == [b \in (DOMAIN cl) \cup {a} |-> IF b = a THEN n ELSE cl[b]]

(***************************************************************************)
(* Outbound writes                                                         *)
(***************************************************************************)
\* conn[a] = "closed" once the task at a has seen that its peer is gone: by
\* a zero-byte read or by a failed write.  A task sees it at most once (it
\* leaves the loop or returns Err), and a peer that has closed unseen is no
\* different from one that is still there.
PeerMayBeGone(a) ==
    /\ conn[a] = "open"
    /\ Cardinality({b \in Addrs : conn[b] = "closed"}) < MaxClose

\* The number of responses of rs written before the first failed write; a
\* write fails only when the peer is gone.
WriteResults(a, rs) ==
    {Len(rs)} \cup (IF PeerMayBeGone(a) THEN 0..(Len(rs) - 1) ELSE {})

\* the connection as the task knows it after k of the writes rs succeeded
AfterConn(a, rs, k) == IF k = Len(rs) THEN conn ELSE [conn EXCEPT ![a] = "closed"]

\* respond! ... .await? for the responses rs in order: the first failure
\* returns Err from handle_client, which drops Client (and its receiver)
\* and any MutexGuard, and skips everything after it.
AfterWrites(rs, k, next) == IF k = Len(rs) THEN next ELSE "failed"

Ended(p) == p \in {"done", "failed", "panicked"}

\* dropping Client drops rx and whatever is still queued in it
DropRx(mb, a, p) == IF Ended(p) THEN [mb EXCEPT ![a] = <<>>] ELSE mb

(***************************************************************************)
(* The server: one handle_client task per accepted connection              *)
(***************************************************************************)
SrvInit ==
    /\ clients = <<>>
    /\ topic = <<"[No topic]">>
    /\ lock = NoAddr
    /\ pc = [a \in Addrs |-> "new"]
    /\ nick = [a \in Addrs |-> <<>>]
    /\ conn = [a \in Addrs |-> "open"]
    /\ mailbox = [a \in Addrs |-> <<>>]
    /\ out = [a \in Addrs |-> <<>>]
    /\ cur = [a \in Addrs |-> NoReq]
    /\ reqs = [a \in Addrs |-> <<>>]

CodecIdle ==
    /\ cbytes = <<>>
    /\ cpos = 0
    /\ cacc = <<>>
    /\ cres = <<>>
    /\ cchunk = <<>>
    /\ crec = <<>>
    /\ cbuf = <<>>
    /\ cout = <<>>

\* outcome of a step that has not run yet
NotRun == [state |-> "notrun"]

ParserIdle ==
    /\ ptext = <<>>
    /\ ptokens = NotRun
    /\ past = NotRun
    /\ wtokens = NotRun
    /\ wast = NotRun
    /\ pquery = NotRun

SelectIdle ==
    /\ smail = <<>>
    /\ stook = <<>>
    /\ ssent = 0

\* Prompt::new; the command list is the one the server sends
PromptNew ==
    [commands |-> << <<"a">> >>, nicks |-> <<>>, pos |-> 0,
     command_buffer |-> <<>>, curr |-> <<>>, history |-> <<>>,
     history_offset |-> 0, mode |-> "Insert"]

\* the terminal client before ChatWindow::new
TermIdle ==
    /\ history = <<>>
    /\ wsent = <<>>
    /\ wstate = "running"
    /\ wlast = [op |-> "none"]
    /\ wtopic = <<>>
    /\ wnick = <<>>
    /\ prompt = PromptNew
    /\ plast = [key |-> [code |-> "None"], panic |-> FALSE]

Init == SrvInit /\ CodecIdle /\ ParserIdle /\ SelectIdle /\ TermIdle

\* Client::new, then Welcome and YourNick, before the hub is touched
Accept(a) ==
    /\ pc[a] = "new"
    /\ \E n \in GenNicks(a) :
         LET rs == <<Build(RES_WELCOME, <<"Welcome to solace!">>, <<>>, <<a, 0>>),
                     Build(RES_YOUR_NICK, n, <<>>, <<a, 0>>)>>
         IN \E k \in WriteResults(a, rs) :
              /\ nick' = [nick EXCEPT ![a] = n]
              /\ out' = [out EXCEPT ![a] = @ \o SubSeq(rs, 1, k)]
              /\ pc' = [pc EXCEPT ![a] = AfterWrites(rs, k, "reg")]
              /\ conn' = AfterConn(a, rs, k)
    /\ UNCHANGED <<clients, topic, lock, mailbox, cur, reqs>>
    /\ UNCHANGED <<codecVars, parserVars, selectVars, termVars>>

\* Message::ClientConnected(client.nick.clone())
Connected(a) == Event("ClientConnected", a, nick[a], <<>>, <<a, 0>>)

\* variant: the registration block inserts the session and tells nobody
RegisterWithoutPublishing(a) ==
    /\ pc[a] = "reg"
    /\ lock = NoAddr
    /\ lock' = a
    /\ clients' = Insert(clients, a, nick[a])
    /\ pc' = [pc EXCEPT ![a] = "bundle"]
    /\ UNCHANGED <<topic, nick, conn, out, cur, reqs, mailbox>>
    /\ UNCHANGED <<codecVars, parserVars, selectVars, termVars>>

\* the registration block up to its first write: lock, insert, publish
Register(a) ==
    /\ pc[a] = "reg"
    /\ lock = NoAddr
    /\ lock' = a
    /\ clients' = Insert(clients, a, nick[a])
    /\ mailbox' = broadcast_others(clients', Connected(a), a)
    /\ pc' = [pc EXCEPT ![a] = "bundle"]
    /\ UNCHANGED <<topic, nick, conn, out, cur, reqs>>
    /\ UNCHANGED <<codecVars, parserVars, selectVars, termVars>>

\* ["ping", "nick", "topic", "whois", "disconnect"].join(" ")
CommandListText ==
    Join(<< <<"ping">>, <<"nick">>, <<"topic">>, <<"whois">>, <<"disconnect">> >>)

\* variant: the NickList is written before the TopicChange
BundleResponsesNickListFirst(a, order) ==
    <<Build(RES_NICK_LIST, NickListText(order), <<>>, <<a, 0>>),
      Build(RES_TOPIC_CHANGE, topic, <<>>, <<a, 0>>),
      Build(RES_COMMAND_LIST, CommandListText, <<>>, <<a, 0>>)>>

\* variant: the bundle announces the start-up topic, not the current one
BundleResponsesStartTopic(a, order) ==
    <<Build(RES_TOPIC_CHANGE, <<"[No topic]">>, <<>>, <<a, 0>>),
      Build(RES_COMMAND_LIST, CommandListText, <<>>, <<a, 0>>),
      Build(RES_NICK_LIST, NickListText(order), <<>>, <<a, 0>>)>>

\* the three responses of the registration block, in the order written
BundleResponses(a, order) ==
    <<Build(RES_TOPIC_CHANGE, topic, <<>>, <<a, 0>>),
      Build(RES_COMMAND_LIST, CommandListText, <<>>, <<a, 0>>),
      Build(RES_NICK_LIST, NickListText(order), <<>>, <<a, 0>>)>>

\* the rest of the registration block: TopicChange, CommandList and
\* NickList are written while the guard is alive
Bundle(a) ==
    /\ pc[a] = "bundle"
    /\ lock = a
    /\ \E order \in Orders(DOMAIN clients) :
         LET rs == BundleResponses(a, order)
         IN \E k \in WriteResults(a, rs) :
              /\ out' = [out EXCEPT ![a] = @ \o SubSeq(rs, 1, k)]
              /\ pc' = [pc EXCEPT ![a] = AfterWrites(rs, k, "loop")]
              /\ mailbox' = DropRx(mailbox, a, AfterWrites(rs, k, "loop"))
              /\ conn' = AfterConn(a, rs, k)
    /\ lock' = NoAddr
    /\ UNCHANGED <<clients, topic, nick, cur, reqs>>
    /\ UNCHANGED <<codecVars, parserVars, selectVars, termVars>>

RECURSIVE SumLen(_, _)
SumLen(f, n) == IF n = 0 THEN 0 ELSE Len(f[n]) + SumLen(f, n - 1)

\* frames taken so far by all tasks
Decoded == SumLen(reqs, MaxSessions)

\* the first response to every decoded request
Ack(r, cause) == Build(RES_ACK_MESSAGE, to_string(r.id), <<>>, cause)

\* variant: the Pong is written before the ack
RequestResponsesPongFirst(r, cause) ==
    IF r.kind = "Ping"
    THEN <<Build(RES_PONG, <<"Pong">>, <<>>, cause), Ack(r, cause)>>
    ELSE <<Ack(r, cause)>>

\* variant: two Pongs for one Ping
RequestResponsesTwoPongs(r, cause) ==
    IF r.kind = "Ping"
    THEN <<Ack(r, cause), Build(RES_PONG, <<"Pong">>, <<>>, cause),
           Build(RES_PONG, <<"Pong">>, <<>>, cause)>>
    ELSE <<Ack(r, cause)>>

\* what the request arm writes before it touches the hub
RequestResponses(r, cause) ==
    IF r.kind = "Ping"
    THEN <<Ack(r, cause), Build(RES_PONG, <<"Pong">>, <<>>, cause)>>
    ELSE <<Ack(r, cause)>>

\* select arm client.req.next() = Some(Ok(req)): the ack, then Pong for a
\* Ping; every other request next waits for the hub lock.  The clients
\* send budget requests in all.
RecvWithin(a, r, budget) ==
    /\ pc[a] = "loop"
    /\ conn[a] = "open"
    /\ Decoded < budget
    /\ reqs' = [reqs EXCEPT ![a] = Append(@, r)]
    /\ LET cause == <<a, Len(reqs[a]) + 1>>
           rs == RequestResponses(r, cause)
           next == IF r.kind = "Ping" THEN "loop" ELSE "dispatch"
       IN \E k \in WriteResults(a, rs) :
            /\ out' = [out EXCEPT ![a] = @ \o SubSeq(rs, 1, k)]
            /\ pc' = [pc EXCEPT ![a] = AfterWrites(rs, k, next)]
            /\ mailbox' = DropRx(mailbox, a, AfterWrites(rs, k, next))
            /\ cur' = [cur EXCEPT ![a] = IF AfterWrites(rs, k, next) = "dispatch" THEN r ELSE NoReq]
            /\ conn' = AfterConn(a, rs, k)
    /\ UNCHANGED <<clients, topic, lock, nick>>
    /\ UNCHANGED <<codecVars, parserVars, selectVars, termVars>>

Recv(a, r) == RecvWithin(a, r, MaxReq)

\* select arm client.req.next() = Some(Err(_)): a frame that does not decode
RecvErr(a) ==
    /\ pc[a] = "loop"
    /\ conn[a] = "open"
    /\ Decoded < MaxReq
    /\ reqs' = [reqs EXCEPT ![a] = Append(@, Garbage)]
    /\ pc' = [pc EXCEPT ![a] = "cleanup"]
    /\ UNCHANGED <<clients, topic, lock, nick, conn, mailbox, out, cur>>
    /\ UNCHANGED <<codecVars, parserVars, selectVars, termVars>>

\* select arm client.req.next() = None: zero-byte read
RecvEof(a) ==
    /\ pc[a] = "loop"
    /\ PeerMayBeGone(a)
    /\ conn' = [conn EXCEPT ![a] = "closed"]
    /\ pc' = [pc EXCEPT ![a] = "cleanup"]
    /\ UNCHANGED <<clients, topic, lock, nick, mailbox, out, cur, reqs>>
    /\ UNCHANGED <<codecVars, parserVars, selectVars, termVars>>

\* the critical section of a request other than Ping: lock, act, unlock
\* (nothing inside it suspends: the sends on unbounded channels are
\* synchronous)
Dispatch(a) ==
    /\ pc[a] = "dispatch"
    /\ lock = NoAddr
    /\ LET r == cur[a]
           cause == <<a, Len(reqs[a])>>
       IN CASE r.kind = "Message" ->
                 /\ mailbox' = broadcast_others(clients, Event("Sent", a, nick[a], r.text, cause), a)
                 /\ pc' = [pc EXCEPT ![a] = "loop"]
                 /\ UNCHANGED <<clients, topic, nick>>
            [] r.kind = "NewTopic" ->
                 /\ topic' = Trim(r.text)
                 /\ mailbox' = broadcast_all(clients, Event("TopicChanged", a, nick[a], Trim(r.text), cause))
                 /\ pc' = [pc EXCEPT ![a] = "loop"]
                 /\ UNCHANGED <<clients, nick>>
            [] r.kind = "NewNick" ->
                 /\ nick' = [nick EXCEPT ![a] = Trim(r.text)]
                 /\ clients' = StoreNick(clients, a, Trim(r.text))
                 /\ mailbox' = broadcast_all(clients, Event("NickChanged", a, nick[a], Trim(r.text), cause))
                 /\ pc' = [pc EXCEPT ![a] = "loop"]
                 /\ UNCHANGED topic
            [] r.kind = "Disconnect" ->
                 /\ clients' = Remove(clients, a)
                 /\ mailbox' = broadcast_others(clients', Event("ClientDisconnected", a, nick[a], <<>>, cause), a)
                 /\ pc' = [pc EXCEPT ![a] = "cleanup"]
                 /\ UNCHANGED <<topic, nick>>
            [] r.kind = "WhoIs" ->
                 /\ \E found \in get_by_nick(r.text) :
                      mailbox' = broadcast_to(Event("WhoIs", found, r.text, <<>>, cause), a)
                 /\ pc' = [pc EXCEPT ![a] = "loop"]
                 /\ UNCHANGED <<clients, topic, nick>>
    /\ cur' = [cur EXCEPT ![a] = NoReq]
    /\ UNCHANGED <<lock, conn, out, reqs>>
    /\ UNCHANGED <<codecVars, parserVars, selectVars, termVars>>

\* variant: the issuer is told about its topic like everybody else
TopicChangedResponsesSameForAll(a, ev) ==
    <<Build(RES_TOPIC_CHANGE, ev.text, <<>>, ev.cause),
      Build(RES_TOPIC_CHANGE_MESSAGE,
            ev.nick \o <<" changed the channel topic to: ">> \o ev.text, <<>>, ev.cause)>>

\* Message::TopicChanged { from, topic }
TopicChangedResponses(a, ev) ==
    <<Build(RES_TOPIC_CHANGE, ev.text, <<>>, ev.cause),
      Build(RES_TOPIC_CHANGE_MESSAGE,
            IF a = ev.addr
            THEN <<"You changed the channel topic to: ">> \o ev.text
            ELSE ev.nick \o <<" changed the channel topic to: ">> \o ev.text,
            <<>>, ev.cause)>>

\* variant: every recipient is sent the YourNick
NickChangedResponsesYourNickToAll(a, ev) ==
    <<Build(RES_YOUR_NICK, ev.text, <<>>, ev.cause),
      Build(RES_NICK_CHANGE,
            IF a = ev.addr
            THEN <<"You are now known as ">> \o ev.text
            ELSE ev.nick \o <<" is now known as ">> \o ev.text,
            <<>>, ev.cause)>>

\* Message::NickChanged { from, new_nick }, up to the NickChange
NickChangedResponses(a, ev) ==
    (IF a = ev.addr THEN <<Build(RES_YOUR_NICK, ev.text, <<>>, ev.cause)>> ELSE <<>>)
    \o <<Build(RES_NICK_CHANGE,
               IF a = ev.addr
               THEN <<"You are now known as ">> \o ev.text
               ELSE ev.nick \o <<" is now known as ">> \o ev.text,
               <<>>, ev.cause)>>

\* the responses a task writes for the mailbox event ev
EventResponses(a, ev) ==
    CASE ev.type = "ClientConnected" ->
           <<Build(RES_HELLO, ev.nick \o <<" has joined">>, <<>>, ev.cause)>>
      [] ev.type = "ClientDisconnected" ->
           <<Build(RES_GOODBYE, ev.nick \o <<" has left the channel">>, <<>>, ev.cause)>>
      [] ev.type = "Sent" ->
           <<Build(RES_CHAT_MESSAGE_OK, ev.text, ev.nick, ev.cause)>>
      [] ev.type = "TopicChanged" -> TopicChangedResponses(a, ev)
      [] ev.type = "NickChanged" -> NickChangedResponses(a, ev)
      [] ev.type = "WhoIs" ->
           IF ev.addr # NoAddr
           THEN <<Build(RES_WHO_IS, ev.nick \o <<" is: ">> \o AddrText(ev.addr), <<>>, ev.cause)>>
           ELSE <<Build(ERR_WHO_IS, <<"User ">> \o ev.nick \o <<" not found in this channel">>, <<>>, ev.cause)>>

\* whether building the responses for ev panics (only Sent sets an origin)
EventPanics(ev) == ev.type = "Sent" /\ BuildPanics(ev.nick)

\* variant: the newest event of the channel is received
RecvEventNewest(mb) == mb[Len(mb)]

\* client.rx.recv(): the oldest event of the channel
RecvEvent(mb) == Head(mb)

\* select arm client.rx.recv() = Some(msg)
Mbox(a) ==
    /\ pc[a] = "loop"
    /\ mailbox[a] # <<>>
    /\ LET ev == RecvEvent(mailbox[a])
           rs == EventResponses(a, ev)
           next == IF ev.type = "NickChanged" THEN "nicklist_lock" ELSE "loop"
       IN IF EventPanics(ev)
          THEN /\ pc' = [pc EXCEPT ![a] = "panicked"]
               /\ mailbox' = [mailbox EXCEPT ![a] = <<>>]
               /\ cur' = cur
               /\ out' = out
               /\ conn' = conn
          ELSE \E k \in WriteResults(a, rs) :
                 /\ out' = [out EXCEPT ![a] = @ \o SubSeq(rs, 1, k)]
                 /\ pc' = [pc EXCEPT ![a] = AfterWrites(rs, k, next)]
                 /\ mailbox' = DropRx([mailbox EXCEPT ![a] = Tail(@)], a, AfterWrites(rs, k, next))
                 /\ cur' = [cur EXCEPT ![a] = IF AfterWrites(rs, k, next) = "nicklist_lock" THEN
                                                 ReqV(1, "NickList", ev.cause[2], <<ev.cause[1]>>)
                                              ELSE NoReq]
                 /\ conn' = AfterConn(a, rs, k)
    /\ UNCHANGED <<clients, topic, lock, nick, reqs>>
    /\ UNCHANGED <<codecVars, parserVars, selectVars, termVars>>

\* Message::NickChanged, server.lock().await after the NickChange write
NickListLock(a) ==
    /\ pc[a] = "nicklist_lock"
    /\ lock = NoAddr
    /\ lock' = a
    /\ pc' = [pc EXCEPT ![a] = "nicklist"]
    /\ UNCHANGED <<clients, topic, nick, conn, mailbox, out, cur, reqs>>
    /\ UNCHANGED <<codecVars, parserVars, selectVars, termVars>>

\* Message::NickChanged, the NickList written while the guard is alive
NickListWrite(a) ==
    /\ pc[a] = "nicklist"
    /\ lock = a
    /\ \E order \in Orders(DOMAIN clients) :
         LET rs == <<Build(RES_NICK_LIST, NickListText(order), <<>>, <<cur[a].text[1], cur[a].id>>)>>
         IN \E k \in WriteResults(a, rs) :
              /\ out' = [out EXCEPT ![a] = @ \o SubSeq(rs, 1, k)]
              /\ pc' = [pc EXCEPT ![a] = AfterWrites(rs, k, "loop")]
              /\ mailbox' = DropRx(mailbox, a, AfterWrites(rs, k, "loop"))
              /\ conn' = AfterConn(a, rs, k)
    /\ lock' = NoAddr
    /\ cur' = [cur EXCEPT ![a] = NoReq]
    /\ UNCHANGED <<clients, topic, nick, reqs>>
    /\ UNCHANGED <<codecVars, parserVars, selectVars, termVars>>

\* variant: the block after the loop publishes whether or not an entry
\* was removed
CleanupRemovedAlways(a) == TRUE

\* if let Some((nick, _)) = server.clients.remove(&addr)
CleanupRemoved(a) == a \in DOMAIN clients

\* the block after the loop: remove the entry if it is still there and
\* tell the others; then handle_client returns Ok
Cleanup(a) ==
    /\ pc[a] = "cleanup"
    /\ lock = NoAddr
    /\ IF CleanupRemoved(a)
       THEN /\ clients' = Remove(clients, a)
            /\ mailbox' = [broadcast_others(clients', Event("ClientDisconnected", a, nick[a], <<>>, <<a, 0>>), a)
                             EXCEPT ![a] = <<>>]
       ELSE /\ clients' = clients
            /\ mailbox' = [mailbox EXCEPT ![a] = <<>>]
    /\ pc' = [pc EXCEPT ![a] = "done"]
    /\ UNCHANGED <<topic, lock, nick, conn, out, cur, reqs>>
    /\ UNCHANGED <<codecVars, parserVars, selectVars, termVars>>

SrvNext ==
    \E a \in Addrs :
        \/ Accept(a)
        \/ Register(a)
        \/ Bundle(a)
        \/ \E r \in Requests : Recv(a, r)
        \/ RecvErr(a)
        \/ RecvEof(a)
        \/ Dispatch(a)
        \/ Mbox(a)
        \/ NickListLock(a)
        \/ NickListWrite(a)
        \/ Cleanup(a)

Next == SrvNext

Spec == Init /\ [][Next]_vars

\* The same server with clients that only rename themselves and ask who
\* holds a nickname, MaxNickReq requests in all.
MaxNickReq == 3

NickRequests ==
    {Req("NewNick", 7, <<" ", "G", " ">>),
     Req("WhoIs", 11, <<"G">>)}

NickNext ==
    \E a \in Addrs :
        \/ Accept(a)
        \/ Register(a)
        \/ Bundle(a)
        \/ \E r \in NickRequests : RecvWithin(a, r, MaxNickReq)
        \/ RecvErr(a)
        \/ RecvEof(a)
        \/ Dispatch(a)
        \/ Mbox(a)
        \/ NickListLock(a)
        \/ NickListWrite(a)
        \/ Cleanup(a)

SpecNick == Init /\ [][NickNext]_vars

(***************************************************************************)
(* The wire codec (bincode 1.x: fixed-width little-endian integers, a u32  *)
(* variant index, strings as a u64 length and the bytes) and the framed    *)
(* decoder.  Here text is a sequence of bytes.                             *)
(***************************************************************************)
MaxPieces == 3

CR == 13
LF == 10

Take(bs, n) == SubSeq(bs, 1, n)
Drop(bs, n) == SubSeq(bs, n + 1, Len(bs))

\* a w-byte unsigned integer, least significant byte first
RECURSIVE ToLE(_, _)
ToLE(n, w) == IF w = 0 THEN <<>> ELSE <<n % 256>> \o ToLE(n \div 256, w - 1)

RECURSIVE FromLE(_)
FromLE(bs) == IF bs = <<>> THEN 0 ELSE bs[1] + 256 * FromLE(Tail(bs))

Variants == <<"Ping", "Message", "NewTopic", "NewNick", "WhoIs", "Disconnect">>
VariantIndex(kind) == CHOOSE i \in 1..Len(Variants) : Variants[i] = kind
HasText(kind) == kind \in {"Message", "NewTopic", "NewNick", "WhoIs"}

\* serialize of a String
SerializeString(text) == ToLE(Len(text), 8) \o text

\* serialize(&Request): version, id, variant index, the variant's String
SerializeRequest(r) ==
    <<r.version>> \o ToLE(r.id, 4) \o ToLE(VariantIndex(r.kind) - 1, 4)
    \o (IF HasText(r.kind) THEN SerializeString(r.text) ELSE <<>>)

\* Request::encode
EncodeRequest(r) == SerializeRequest(r) \o <<CR, LF>>

\* serialize(&Response): the fields in declaration order
SerializeResponse(r) ==
    <<r.version>> \o ToLE(r.request_id, 4) \o ToLE(r.timestamp, 8) \o ToLE(r.code, 2)
    \o <<r.origin_length>> \o SerializeString(r.origin) \o SerializeString(r.message)

\* Response::encode
EncodeResponse(r) == SerializeResponse(r) \o <<CR, LF>>

\* str::from_utf8 on the bytes the inputs are made of: ASCII, and 255, which
\* no UTF-8 text contains
Utf8Valid(bs) == \A i \in 1..Len(bs) : bs[i] < 128

Fail == [ok |-> FALSE, val |-> <<>>, rest |-> <<>>]

\* deserialize of a String at the front of bs; a length of 2^24 or more is
\* beyond every input
ReadString(bs) ==
    IF Len(bs) < 8 THEN Fail
    ELSE IF \E i \in 4..8 : bs[i] # 0 THEN Fail
    ELSE LET n == FromLE(Take(bs, 3))
         IN IF n > Len(bs) - 8 THEN Fail
            ELSE IF ~Utf8Valid(SubSeq(bs, 9, 8 + n)) THEN Fail
            ELSE [ok |-> TRUE, val |-> SubSeq(bs, 9, 8 + n), rest |-> Drop(bs, 8 + n)]

RequestRec(version, id, kind, text) ==
    [type |-> "request", version |-> version, id |-> id, kind |-> kind, text |-> text]

ResponseRec(request_id, timestamp, code, origin, message) ==
    [type |-> "response", version |-> 1, request_id |-> request_id,
     timestamp |-> timestamp, code |-> code, origin_length |-> Len(origin),
     origin |-> origin, message |-> message]

NoRec == [type |-> "none"]

\* what one call of decode gives: a record, an error, or need-more-bytes
Item(rec) == [kind |-> "rec", rec |-> rec]
Error == [kind |-> "err", rec |-> NoRec]
None == [kind |-> "none", rec |-> NoRec]

\* the call does not return: an index or a slice range out of bounds
Panic == [kind |-> "panic", rec |-> NoRec]

\* Request::decode = bincode::deserialize (trailing bytes are allowed)
DeserializeRequest(bs) ==
    IF Len(bs) < 9 THEN Error
    ELSE LET tag == SubSeq(bs, 6, 9)
         IN IF tag[2] # 0 \/ tag[3] # 0 \/ tag[4] # 0 \/ tag[1] >= Len(Variants) THEN Error
            ELSE LET kind == Variants[tag[1] + 1]
                     str == IF HasText(kind) THEN ReadString(Drop(bs, 9))
                            ELSE [ok |-> TRUE, val |-> <<>>, rest |-> Drop(bs, 9)]
                 IN IF ~str.ok THEN Error
                    ELSE Item(RequestRec(bs[1], FromLE(SubSeq(bs, 2, 5)), kind, str.val))

\* Response::decode = bincode::deserialize
DeserializeResponse(bs) ==
    IF Len(bs) < 16 THEN Error
    ELSE LET origin == ReadString(Drop(bs, 16))
         IN IF ~origin.ok THEN Error
            ELSE LET message == ReadString(origin.rest)
                 IN IF ~message.ok THEN Error
                    ELSE Item([type |-> "response", version |-> bs[1],
                               request_id |-> FromLE(SubSeq(bs, 2, 5)),
                               timestamp |-> FromLE(SubSeq(bs, 6, 13)),
                               code |-> FromLE(SubSeq(bs, 14, 15)),
                               origin_length |-> bs[16],
                               origin |-> origin.val, message |-> message.val])

\* the positions p (0-based) with acc[p..p+2] = b"\r\n"
Terminators(acc) == {p \in 0..(Len(acc) - 2) : acc[p + 1] = CR /\ acc[p + 2] = LF}

Min(S) == CHOOSE x \in S : \A y \in S : x <= y
Max(S) == CHOOSE x \in S : \A y \in S : x >= y

\* variant: the last terminator in the accumulator ends the frame
LastTerminator(acc) == Max(Terminators(acc))

\* src.windows(2).position(|w| w == b"\r\n")
FirstTerminator(acc) == Min(Terminators(acc))

\* variant: bytes that hold no complete frame are dropped
DecodeDropsPartial(type, acc) ==
    IF Terminators(acc) = {} THEN [item |-> None, acc |-> <<>>]
    ELSE LET pos == FirstTerminator(acc)
         IN [item |-> IF type = "response" THEN DeserializeResponse(Take(acc, pos))
                      ELSE IF pos < 5 THEN Error
                      ELSE DeserializeRequest(Take(acc, pos)),
             acc |-> Drop(acc, pos + 2)]

\* variant: a decoded frame takes the rest of the accumulator with it
DecodeClearsBuffer(type, acc) ==
    IF Terminators(acc) = {} THEN [item |-> None, acc |-> acc]
    ELSE LET pos == FirstTerminator(acc)
         IN [item |-> IF type = "response" THEN DeserializeResponse(Take(acc, pos))
                      ELSE IF pos < 5 THEN Error
                      ELSE DeserializeRequest(Take(acc, pos)),
             acc |-> <<>>]

\* impl Decoder for Request / for Response: one call of decode on the
\* accumulator acc; type selects the record, and only the request decoder
\* has the length check
Decode(type, acc) ==
    IF Terminators(acc) = {} THEN [item |-> None, acc |-> acc]
    ELSE LET pos == FirstTerminator(acc)
             buf == Take(acc, pos)
             rest == Drop(acc, pos + 2)
         IN IF type = "response" THEN [item |-> DeserializeResponse(buf), acc |-> rest]
            ELSE IF Len(buf) < 5 THEN [item |-> Error, acc |-> rest]
            ELSE [item |-> DeserializeRequest(buf), acc |-> rest]

\* decode called until it returns need-more-bytes
RECURSIVE DecodeAll(_, _, _)
DecodeAll(type, acc, items) ==
    LET d == Decode(type, acc)
    IN IF d.item.kind = "none" THEN [items |-> items, acc |-> acc]
       ELSE DecodeAll(type, d.acc, Append(items, d.item))

\* a w-byte unsigned integer, most significant byte first
RECURSIVE ToBE(_, _)
ToBE(n, w) == IF w = 0 THEN <<>> ELSE ToBE(n \div 256, w - 1) \o <<n % 256>>

RECURSIVE FromBE(_)
FromBE(bs) == IF bs = <<>> THEN 0 ELSE 256 * FromBE(SubSeq(bs, 1, Len(bs) - 1)) + bs[Len(bs)]

\* wangerz-protocol Response::as_bytes
as_bytes(r) ==
    <<r.version>> \o ToBE(r.request_id, 4) \o ToBE(r.timestamp, 8) \o ToBE(r.code, 2)
    \o <<r.origin_length>> \o r.origin \o r.message \o <<CR, LF>>

\* wangerz-protocol impl TryFrom<&mut Vec<u8>> for Response: parseable is
\* the frame with its terminator; indices 13, 14 and 15 are read after a
\* check for 13 bytes only.  origin_end is a u8: when 16 + origin_length
\* overflows, a build with overflow checks panics at the addition and a
\* build without them wraps below 16 and panics at the slice 16..origin_end.
try_from(buf) ==
    IF Terminators(buf) = {} THEN [item |-> Error, acc |-> buf]
    ELSE LET pos == FirstTerminator(buf)
             parseable == Take(buf, pos + 2)
             rest == Drop(buf, pos + 2)
         IN IF Len(parseable) < 13 THEN [item |-> Error, acc |-> rest]
            ELSE IF Len(parseable) < 16 THEN [item |-> Panic, acc |-> rest]
            ELSE LET origin_end == 16 + parseable[16]
                 IN IF origin_end > U8Max \/ origin_end > Len(parseable)
                    THEN [item |-> Panic, acc |-> rest]
                    ELSE IF ~Utf8Valid(Drop(parseable, 16)) THEN [item |-> Error, acc |-> rest]
                    ELSE [item |-> Item([type |-> "response", version |-> parseable[1],
                                         request_id |-> FromBE(SubSeq(parseable, 2, 5)),
                                         timestamp |-> FromBE(SubSeq(parseable, 6, 13)),
                                         code |-> FromBE(SubSeq(parseable, 14, 15)),
                                         origin_length |-> parseable[16],
                                         origin |-> SubSeq(parseable, 17, origin_end),
                                         message |-> Drop(parseable, origin_end)]),
                          acc |-> rest]

\* inputs of the codec
TextInputs == {<<>>, <<104, 105>>, <<97, CR, LF, 98>>}

RequestInputs ==
    {RequestRec(1, id, kind, <<>>) : id \in {7, 2573}, kind \in {"Ping", "Disconnect"}}
    \cup {RequestRec(2, 11, "Ping", <<>>)}
    \cup {RequestRec(1, id, kind, text) :
            id \in {7, 2573}, kind \in {"Message", "NewTopic", "NewNick", "WhoIs"},
            text \in TextInputs}

ResponseInputs ==
    {ResponseRec(id, ts, code, origin, text) :
        id \in {0}, ts \in {1700000000, 1700006413}, code \in {RES_ACK_MESSAGE, RES_CHAT_MESSAGE_OK},
        origin \in {<<>>, <<66, 69, 84, 65>>}, text \in TextInputs}

\* the byte sequences are made of: a lone \r, a lone \n, a byte, five
\* bytes that are long enough but no Request, a terminated one-byte frame,
\* and a whole encoded Ping
Pieces ==
    {<<CR>>, <<LF>>, <<1>>, <<0, 0, 0, 0, 0>>, <<2, CR, LF>>,
     EncodeRequest(RequestRec(1, 7, "Ping", <<>>))}

RECURSIVE Concats(_)
Concats(n) ==
    IF n = 0 THEN {<<>>}
    ELSE Concats(n - 1) \cup {b \o p : b \in Concats(n - 1), p \in Pieces}

ByteInputs == Concats(MaxPieces)

\* requests whose encodings hold no terminator of their own
BatchInputs ==
    {RequestRec(1, 7, "Ping", <<>>), RequestRec(1, 11, "Message", <<104, 105>>),
     RequestRec(1, 12, "Disconnect", <<>>)}

\* requests written back to back
Batch(recs) == [type |-> "batch", recs |-> recs]

RECURSIVE EncodeBatch(_)
EncodeBatch(recs) ==
    IF recs = <<>> THEN <<>> ELSE EncodeRequest(Head(recs)) \o EncodeBatch(Tail(recs))

\* byte sequences for the wangerz-protocol response parser: frames of 3,
\* 13 and 15 bytes with their terminators, a response, a response with an
\* origin_length beyond the frame, and bytes without a terminator
WangerzBytes == [type |-> "wangerz"]

WangerzResponse ==
    [version |-> 1, request_id |-> 7, timestamp |-> 1700000000, code |-> RES_CHAT_MESSAGE_OK,
     origin_length |-> 2, origin |-> <<66, 69>>, message |-> <<104, 105>>]

WangerzInputs ==
    LET zeros(n) == [i \in 1..n |-> 0]
    IN {<<1, CR, LF>>,
        zeros(11) \o <<CR, LF>>,
        zeros(13) \o <<CR, LF>>,
        as_bytes(WangerzResponse),
        as_bytes(WangerzResponse) \o zeros(12) \o <<CR, LF>>,
        as_bytes([WangerzResponse EXCEPT !.origin_length = 250]),
        as_bytes(WangerzResponse) \o <<1, 2>>,
        <<1, 2, 3>>}

\* the input is the encoding of a record, a byte sequence for the request
\* decoder, several requests back to back, or a byte sequence for the
\* wangerz-protocol response parser
CodecInit ==
    /\ SrvInit
    /\ ParserIdle
    /\ SelectIdle
    /\ TermIdle
    /\ \/ /\ crec \in RequestInputs
          /\ cbytes = EncodeRequest(crec)
       \/ /\ crec \in ResponseInputs
          /\ cbytes = EncodeResponse(crec)
       \/ /\ crec = NoRec
          /\ cbytes \in ByteInputs
       \/ /\ crec \in {Batch(<<r1, r2>>) : r1, r2 \in BatchInputs}
                      \cup {Batch(<<r1, r2, r3>>) : r1, r2, r3 \in BatchInputs}
          /\ cbytes = EncodeBatch(crec.recs)
       \/ /\ crec = WangerzBytes
          /\ cbytes \in WangerzInputs
    /\ cpos = 0
    /\ cacc = <<>>
    /\ cres = <<>>
    /\ cchunk = <<>>
    /\ cbuf = cbytes
    /\ cout = <<>>

DecoderType == IF crec.type = "response" THEN "response" ELSE "request"

\* one more byte arrives and decode is called once
FeedByte ==
    /\ cpos < Len(cbytes)
    /\ cpos' = cpos + 1
    /\ LET d == Decode(DecoderType, Append(cacc, cbytes[cpos + 1]))
       IN /\ cacc' = d.acc
          /\ cres' = IF d.item.kind = "none" THEN cres ELSE Append(cres, d.item)
    /\ UNCHANGED <<cbytes, cchunk, crec, cbuf, cout>>
    /\ UNCHANGED <<srvVars, parserVars, selectVars, termVars>>

\* all the bytes arrive in one read and decode is called until it returns
\* need-more-bytes
FeedChunk ==
    /\ cchunk = <<>>
    /\ cchunk' = <<DecodeAll(DecoderType, cbytes, <<>>)>>
    /\ UNCHANGED <<cbytes, cpos, cacc, cres, crec, cbuf, cout>>
    /\ UNCHANGED <<srvVars, parserVars, selectVars, termVars>>

\* every call so far returned a record
AllRecords(items) == \A i \in 1..Len(items) : items[i].kind = "rec"

\* client.req.next() once the whole input is in the read buffer: one call
\* of decode per turn of the session's loop; the loop is left at the first
\* error, and need-more-bytes yields nothing
NextFrame ==
    /\ crec.type # "wangerz"
    /\ AllRecords(cout)
    /\ LET d == Decode(DecoderType, cbuf)
       IN /\ d.item.kind # "none"
          /\ cbuf' = d.acc
          /\ cout' = Append(cout, d.item)
    /\ UNCHANGED <<cbytes, cpos, cacc, cres, cchunk, crec>>
    /\ UNCHANGED <<srvVars, parserVars, selectVars, termVars>>

\* wangerz client: while let Ok(res) = Response::try_from(&mut buf_message)
TryNext ==
    /\ crec.type = "wangerz"
    /\ AllRecords(cout)
    /\ LET d == try_from(cbuf)
       IN /\ cbuf' = d.acc
          /\ cout' = Append(cout, d.item)
    /\ UNCHANGED <<cbytes, cpos, cacc, cres, cchunk, crec>>
    /\ UNCHANGED <<srvVars, parserVars, selectVars, termVars>>

CodecNext == FeedByte \/ FeedChunk \/ NextFrame \/ TryNext

SpecCodec == CodecInit /\ [][CodecNext]_vars

(***************************************************************************)
(* The select of the session loop: one task, the bytes of its inbound half *)
(* arriving one at a time, and events arriving in its mailbox.  The read   *)
(* buffer is part of client.req and the queue part of client.rx, fields of *)
(* Client that outlive a turn of the loop.                                 *)
(***************************************************************************)
MaxEvents == 2

\* the peer writes two requests back to back
SelectInit ==
    /\ SrvInit
    /\ ParserIdle
    /\ SelectIdle
    /\ TermIdle
    /\ crec \in {Batch(<<r1, r2>>) : r1, r2 \in BatchInputs}
    /\ cbytes = EncodeBatch(crec.recs)
    /\ cpos = 0
    /\ cacc = <<>>
    /\ cres = <<>>
    /\ cchunk = <<>>
    /\ cbuf = cbytes
    /\ cout = <<>>

\* tx.send by another task: one more event is queued
SelectSend ==
    /\ ssent < MaxEvents
    /\ ssent' = ssent + 1
    /\ smail' = Append(smail, ssent + 1)
    /\ UNCHANGED <<stook, srvVars, codecVars, parserVars, termVars>>

\* variant: the read buffer lives in the future of client.req.next() and
\* goes with it when the other arm wins
ReadBufferAfterSelectLost(acc) == <<>>

\* the read buffer of client.req after the future of client.req.next() was
\* dropped: the buffer belongs to the FramedRead, not to the future
ReadBufferAfterSelect(acc) == acc

\* select arm client.rx.recv() = Some(msg): the oldest event is taken and the
\* future of client.req.next() is dropped; the entry of stook also notes how
\* many bytes of a frame were buffered then
SelectMailbox ==
    /\ smail # <<>>
    /\ stook' = Append(stook, <<RecvEvent(smail), Len(cacc)>>)
    /\ smail' = Tail(smail)
    /\ cacc' = ReadBufferAfterSelect(cacc)
    /\ UNCHANGED <<ssent, cbytes, cpos, cres, cchunk, crec, cbuf, cout>>
    /\ UNCHANGED <<srvVars, parserVars, termVars>>

\* the select arm client.req.next() is FeedByte: a byte arrives and decode
\* is called; it yields a request or stays pending
SelectNext == FeedByte \/ SelectSend \/ SelectMailbox

SpecSelect == SelectInit /\ [][SelectNext]_vars

(***************************************************************************)
(* Message parsers: solace-message-parser, and wangerz-message-parser, the *)
(* crate it was copied from.  A text is a sequence of chars; a grapheme is *)
(* a sequence of chars; token and node texts are sequences of chars.       *)
(***************************************************************************)
MaxText == 4

\* the chars of the texts under test: the three sigils, a space, an ASCII
\* letter, the two-byte letter U+00E9 and the two-byte combining mark U+0301
ParserChars == {"/", "@", "#", " ", "a", "U+00E9", "U+0301"}

\* str::len counts bytes: char::len_utf8
len_utf8(ch) == IF ch \in {"U+00E9", "U+0301"} THEN 2 ELSE 1

RECURSIVE Utf8Len(_)
Utf8Len(t) == IF t = <<>> THEN 0 ELSE len_utf8(Head(t)) + Utf8Len(Tail(t))

\* char::is_whitespace
is_whitespace(ch) == ch = " "

\* char::is_alphanumeric
is_alphanumeric(ch) == ch \in {"a", "b", "c", "U+00E9"}

\* a combining mark extends the cluster of the char before it
IsExtend(ch) == ch = "U+0301"

\* str::graphemes(true): extended grapheme clusters of the text, in order
RECURSIVE Graphemes(_)
Graphemes(t) ==
    IF t = <<>> THEN <<>>
    ELSE LET n == Len(t)
             start == Max({1} \cup {i \in 2..n : ~IsExtend(t[i])})
         IN Append(Graphemes(SubSeq(t, 1, start - 1)), SubSeq(t, start, n))

\* s.trim().is_empty()
TrimIsEmpty(g) == \A i \in 1..Len(g) : is_whitespace(g[i])

Token(kind, value, c0, c1) ==
    [kind |-> kind, value |-> value, span |-> <<c0, c1>>]

\* Lexer::advance: pos moves with the iterator while it is below the byte
\* length of the content
LexerAdvance(pos, len) == IF pos < len THEN pos + 1 ELSE pos

\* Lexer::eat_whitespace: the position of the first grapheme at or after
\* pos that is not whitespace
RECURSIVE eat_whitespace(_, _, _)
eat_whitespace(gs, len, pos) ==
    IF pos < Len(gs) /\ TrimIsEmpty(gs[pos + 1])
    THEN eat_whitespace(gs, len, LexerAdvance(pos, len))
    ELSE pos

\* consume_word, had it also ended a word before a '@' or '#' inside it
RECURSIVE consume_wordEndsAtSigil(_, _, _)
consume_wordEndsAtSigil(gs, len, pos) ==
    IF pos < Len(gs) /\ ~TrimIsEmpty(gs[pos + 1])
    THEN LET next == LexerAdvance(pos, len)
             r == IF next < Len(gs) /\ gs[next + 1] \in {<<"@">>, <<"#">>}
                  THEN [s |-> <<>>, pos |-> next]
                  ELSE consume_wordEndsAtSigil(gs, len, next)
         IN [s |-> gs[pos + 1] \o r.s, pos |-> r.pos]
    ELSE [s |-> <<>>, pos |-> pos]

\* Lexer::consume_word: the graphemes from pos up to whitespace or the end,
\* pushed onto one string, and the position after them
RECURSIVE consume_word(_, _, _)
consume_word(gs, len, pos) ==
    IF pos < Len(gs) /\ ~TrimIsEmpty(gs[pos + 1])
    THEN LET r == consume_word(gs, len, LexerAdvance(pos, len))
         IN [s |-> gs[pos + 1] \o r.s, pos |-> r.pos]
    ELSE [s |-> <<>>, pos |-> pos]

\* the match of Lexer::lex on the current grapheme
WordKind(g) ==
    CASE g = <<"/">> -> "Command"
      [] g = <<"@">> -> "UserMention"
      [] g = <<"#">> -> "ChannelMention"
      [] OTHER -> "Text"

\* Lexer::lex of solace-message-parser: the loop from position pos on
RECURSIVE LexLoop(_, _, _)
LexLoop(gs, len, pos) ==
    LET start == eat_whitespace(gs, len, pos)
    IN IF start >= Len(gs)
       THEN <<Token("Eof", <<>>, start, start)>>
       ELSE LET w == consume_word(gs, len, start)
            IN <<Token(WordKind(gs[start + 1]), w.s, start,
                       start + Len(w.s))>>
               \o LexLoop(gs, len, w.pos)

\* Lexer::new, then Lexer::lex
lex(t) == LexLoop(Graphemes(t), Utf8Len(t), 0)

(***************************************************************************)
(* solace-message-parser: Parser                                           *)
(***************************************************************************)
\* the slice [1..] of the text of a Command or mention token: everything
\* after its first byte, which is the one-byte sigil
SliceFrom1(value) == Tail(value)

\* impl Parse for AstNode: the node that starts at token i (from 1) and the
\* position the parser is left at; a Command takes every token up to Eof
\* as its args
RECURSIVE ParseAstNode(_, _)
RECURSIVE ParseArgs(_, _)
ParseAstNode(toks, i) ==
    LET tok == toks[i]
    IN CASE tok.kind = "Text" ->
              [node |-> [kind |-> "Text", span |-> tok.span,
                         value |-> tok.value],
               next |-> i + 1]
         [] tok.kind = "Command" ->
              LET a == ParseArgs(toks, i + 1)
              IN [node |-> [kind |-> "Command", span |-> tok.span,
                            raw |-> tok.value,
                            parsed |-> SliceFrom1(tok.value),
                            args |-> a.nodes],
                  next |-> a.next]
         [] tok.kind \in {"UserMention", "ChannelMention"} ->
              [node |-> [kind |-> tok.kind, span |-> tok.span,
                         raw |-> tok.value,
                         parsed |-> SliceFrom1(tok.value)],
               next |-> i + 1]
         [] tok.kind = "Whitespace" ->
              [node |-> [kind |-> "Whitespace", len |-> tok.value],
               next |-> i + 1]

\* the loop `while !parser.is_at_eof()` around AstNode::parse
ParseArgs(toks, i) ==
    IF toks[i].kind = "Eof"
    THEN [nodes |-> <<>>, next |-> i]
    ELSE LET r == ParseAstNode(toks, i)
             rest == ParseArgs(toks, r.next)
         IN [nodes |-> <<r.node>> \o rest.nodes, next |-> rest.next]

Parsed(ast) == [state |-> "ok", ast |-> ast]
ParsePanic == [state |-> "panic"]

\* impl Parse for AstMessage: the nodes up to Eof; a first node that is a
\* Command is the message, no node at all is the unreachable! arm
ParseAstMessage(toks) ==
    LET nodes == ParseArgs(toks, 1).nodes
    IN IF nodes = <<>> THEN ParsePanic
       ELSE IF nodes[1].kind = "Command"
            THEN Parsed([kind |-> "Command", node |-> nodes[1]])
            ELSE Parsed([kind |-> "Normal", nodes |-> nodes])

(***************************************************************************)
(* wangerz-message-parser: Lexer and Parser.  content is the Vec<char> of  *)
(* the text, end_pos its length in bytes; current() indexes content and    *)
(* panics at an index that is not below the number of chars.               *)
(***************************************************************************)
\* Lexer::is_at_end
is_at_end(end_pos, pos) == pos >= end_pos

\* Lexer::current is out of bounds
CurrentPanics(content, pos) == pos >= Len(content)

\* Lexer::advance
WangerzAdvance(end_pos, pos) == IF is_at_end(end_pos, pos) THEN pos ELSE pos + 1

\* Lexer::is_start_of_special
is_start_of_special(content, pos) ==
    /\ content[pos + 1] \in {"@", "#"}
    /\ (pos = 0 \/ is_whitespace(content[pos]))

\* the condition that ends the scan of a token: terminate_when of a command
\* or of a mention in lex_special, is_start_of_special in lex_text
Terminates(content, pos, scan) ==
    CASE scan = "command" -> is_whitespace(content[pos + 1])
      [] scan = "mention" -> ~is_alphanumeric(content[pos + 1])
      [] scan = "text" -> is_start_of_special(content, pos)

\* the while loops of lex_special and lex_text: the position the scan stops
\* at, or a panic when current() is called past the last char
RECURSIVE Scan(_, _, _, _)
Scan(content, end_pos, pos, scan) ==
    IF is_at_end(end_pos, pos) THEN [panic |-> FALSE, pos |-> pos]
    ELSE IF CurrentPanics(content, pos) THEN [panic |-> TRUE, pos |-> pos]
    ELSE IF Terminates(content, pos, scan) THEN [panic |-> FALSE, pos |-> pos]
    ELSE Scan(content, end_pos, WangerzAdvance(end_pos, pos), scan)

\* Lexer::lex_special
lex_special(content, end_pos, start, marker) ==
    LET kind == CASE marker = "/" -> "Command"
                  [] marker = "@" -> "UserMention"
                  [] marker = "#" -> "ChannelMention"
        r == Scan(content, end_pos, WangerzAdvance(end_pos, start),
                  IF marker = "/" THEN "command" ELSE "mention")
    IN [panic |-> r.panic, pos |-> r.pos,
        tok |-> Token(kind, SubSeq(content, start + 1, r.pos), start, r.pos)]

\* Lexer::lex_text
lex_text(content, end_pos, start) ==
    LET r == Scan(content, end_pos, start, "text")
    IN [panic |-> r.panic, pos |-> r.pos,
        tok |-> Token("Text", SubSeq(content, start + 1, r.pos), start, r.pos)]

\* Lexer::get_next_token
get_next_token(content, end_pos, pos) ==
    IF is_at_end(end_pos, pos)
    THEN [panic |-> FALSE, pos |-> pos, tok |-> Token("Eof", <<>>, pos, pos)]
    ELSE IF CurrentPanics(content, pos)
    THEN [panic |-> TRUE, pos |-> pos, tok |-> Token("Eof", <<>>, pos, pos)]
    ELSE LET ch == content[pos + 1]
         IN CASE ch = "/" /\ pos = 0 -> lex_special(content, end_pos, pos, "/")
              [] /\ ch \in {"@", "#"}
                 /\ (pos = 0 \/ is_whitespace(content[pos])) ->
                     lex_special(content, end_pos, pos, ch)
              [] OTHER -> lex_text(content, end_pos, pos)

Lexed(toks) == [state |-> "ok", tokens |-> toks]
LexPanic == [state |-> "panic"]

\* Lexer::lex of wangerz-message-parser: the loop from position pos on
RECURSIVE WangerzLexLoop(_, _, _)
WangerzLexLoop(content, end_pos, pos) ==
    LET t == get_next_token(content, end_pos, pos)
    IN IF t.panic THEN LexPanic
       ELSE IF t.tok.kind = "Eof" THEN Lexed(<<t.tok>>)
       ELSE LET rest == WangerzLexLoop(content, end_pos, t.pos)
            IN IF rest.state = "panic" THEN LexPanic
               ELSE Lexed(<<t.tok>> \o rest.tokens)

\* Lexer::new, then Lexer::lex
WangerzLex(t) == WangerzLexLoop(t, Utf8Len(t), 0)

\* impl Parse for AstNode of wangerz-message-parser
RECURSIVE WangerzParseAstNode(_, _)
RECURSIVE WangerzParseArgs(_, _)
WangerzParseAstNode(toks, i) ==
    LET tok == toks[i]
    IN CASE tok.kind = "Text" ->
              [node |-> [kind |-> "Text", span |-> tok.span,
                         value |-> tok.value],
               next |-> i + 1]
         [] tok.kind = "Command" ->
              LET a == WangerzParseArgs(toks, i + 1)
              IN [node |-> [kind |-> "Command", span |-> tok.span,
                            raw |-> tok.value,
                            parsed |-> SliceFrom1(tok.value),
                            args |-> a.nodes],
                  next |-> a.next]
         [] tok.kind \in {"UserMention", "ChannelMention"} ->
              [node |-> [kind |-> tok.kind, span |-> tok.span,
                         raw |-> tok.value,
                         parsed |-> SliceFrom1(tok.value)],
               next |-> i + 1]

\* the loop `while !parser.is_at_eof()` around AstNode::parse
WangerzParseArgs(toks, i) ==
    IF toks[i].kind = "Eof"
    THEN [nodes |-> <<>>, next |-> i]
    ELSE LET r == WangerzParseAstNode(toks, i)
             rest == WangerzParseArgs(toks, r.next)
         IN [nodes |-> <<r.node>> \o rest.nodes, next |-> rest.next]

\* impl Parse for Ast
WangerzParseAst(toks) == Parsed([nodes |-> WangerzParseArgs(toks, 1).nodes])

(***************************************************************************)
(* The parsers as a state machine: a text, then Parser::new (which lexes), *)
(* then Parser::parse, for each of the two crates.                         *)
(***************************************************************************)
RECURSIVE TextsOfLen(_)
TextsOfLen(n) ==
    IF n = 0 THEN {<<>>}
    ELSE {Append(t, ch) : t \in TextsOfLen(n - 1), ch \in ParserChars}

\* the texts of the crates' tests test_only_first_command_counts and
\* test_command_not_at_start, with one-letter words
TestTexts ==
    { <<"/", "a", " ", "/", "b", " ", "c">>,
      <<"a", " ", "b", " ", "/", "c">> }

ParserInputs == UNION {TextsOfLen(n) : n \in 0..MaxText} \cup TestTexts

ParserInit ==
    /\ SrvInit
    /\ CodecIdle
    /\ SelectIdle
    /\ TermIdle
    /\ ptext \in ParserInputs
    /\ ptokens = NotRun
    /\ past = NotRun
    /\ wtokens = NotRun
    /\ wast = NotRun
    /\ pquery = NotRun

\* Parser::new of solace-message-parser
ParserNew ==
    /\ ptokens = NotRun
    /\ ptokens' = Lexed(lex(ptext))
    /\ UNCHANGED <<termVars, selectVars, srvVars, codecVars, ptext, past, wtokens, wast, pquery>>

\* Parser::parse of solace-message-parser
ParserParse ==
    /\ ptokens.state = "ok"
    /\ past = NotRun
    /\ past' = ParseAstMessage(ptokens.tokens)
    /\ UNCHANGED <<termVars, selectVars, srvVars, codecVars, ptext, ptokens, wtokens, wast, pquery>>

\* Parser::new of wangerz-message-parser
WangerzParserNew ==
    /\ wtokens = NotRun
    /\ wtokens' = WangerzLex(ptext)
    /\ UNCHANGED <<termVars, selectVars, srvVars, codecVars, ptext, ptokens, past, wast, pquery>>

\* Parser::parse of wangerz-message-parser
WangerzParserParse ==
    /\ wtokens.state = "ok"
    /\ wast = NotRun
    /\ wast' = WangerzParseAst(wtokens.tokens)
    /\ UNCHANGED <<termVars, selectVars, srvVars, codecVars, ptext, ptokens, past, wtokens, pquery>>

\* TextSpan::contains
contains(span, pos) == span[1] <= pos /\ pos <= span[2]

\* AstNode::contains_pos
contains_pos(node, pos) ==
    IF node.kind = "Whitespace" THEN FALSE ELSE contains(node.span, pos)

NoNode == [kind |-> "None"]

\* Iterator::find: the first node of the list that contains pos
FindNode(nodes, pos) ==
    LET hits == {i \in 1..Len(nodes) : contains_pos(nodes[i], pos)}
    IN IF hits = {} THEN NoNode ELSE nodes[Min(hits)]

\* AstMessage::node_at_pos
node_at_pos(ast, pos) ==
    IF ast.kind = "Command"
    THEN IF contains_pos(ast.node, pos) THEN ast.node ELSE NoNode
    ELSE FindNode(ast.nodes, pos)

\* a call of node_at_pos on the parsed message, for a position of the text
NodeAtPos ==
    /\ past.state = "ok"
    /\ \E pos \in 0..(Len(Graphemes(ptext)) - 1) :
          pquery' = [state |-> "ok", pos |-> pos,
                     node |-> node_at_pos(past.ast, pos)]
    /\ UNCHANGED <<termVars, selectVars, srvVars, codecVars, ptext, ptokens, past, wtokens, wast>>

ParserNext ==
    \/ ParserNew
    \/ ParserParse
    \/ WangerzParserNew
    \/ WangerzParserParse
    \/ NodeAtPos

SpecParser == ParserInit /\ [][ParserNext]_vars

(***************************************************************************)
(* solace-client-term: ChatWindow, the terminal client's side of the       *)
(* connection.  write is called with each line the user submits, read with *)
(* each response the connection yields.                                    *)
(***************************************************************************)
MaxEntries == 2
MaxId == 2

\* rand::random::<u32>(): the ids a request may draw
ClientIds == 1..MaxId

\* Option<u32>::None, outside the range of u32
NoId == 0 - 1
NoAuthor == "None"

\* solace_message_parser::parse: lex the text, then parse the tokens
parse(t) == ParseAstMessage(lex(t))

\* ChatHistoryEntry::new; the parts are rendered from the text
ChatHistoryEntryNew(text, author, id) ==
    [author |-> author, id |-> id, is_confirmed |-> FALSE, text |-> text]

\* ChatHistoryEntry::error
ChatHistoryEntryError(msg) ==
    [author |-> NoAuthor, id |-> NoId, is_confirmed |-> TRUE, text |-> msg]

\* ChatHistory::message: the text is parsed before the entry is pushed
ChatHistoryMessage(entries, msg, origin, id) ==
    IF parse(msg).state = "panic" THEN ParsePanic
    ELSE [state |-> "ok",
          entries |-> Append(entries,
              ChatHistoryEntryNew(msg,
                  IF origin = <<>> THEN NoAuthor ELSE origin, id))]

\* ChatHistory::ack: the first entry with the id is confirmed
ChatHistoryAck(entries, id) ==
    LET found == {i \in 1..Len(entries) : entries[i].id = id}
    IN IF found = {} THEN entries
       ELSE [entries EXCEPT ![Min(found)].is_confirmed = TRUE]

\* ChatHistory::render_into: an entry is drawn in the unconfirmed colours
ShownPending(entry) == ~entry.is_confirmed /\ entry.id # NoId

IsDigit(ch) == \E d \in 0..9 : Digits[d + 1] = ch

DigitOf(ch) == CHOOSE d \in 0..9 : Digits[d + 1] = ch

RECURSIVE DecimalValue(_)
DecimalValue(s) ==
    IF s = <<>> THEN 0
    ELSE DecimalValue(SubSeq(s, 1, Len(s) - 1)) * 10 + DigitOf(s[Len(s)])

\* str::parse::<u32>: an optional '+', then digits only; up to nine digits
\* always fit 32 bits, and no payload under test has more
parse_u32(s) ==
    LET d == IF s # <<>> /\ s[1] = "+" THEN Tail(s) ELSE s
    IN IF d # <<>> /\ (\A i \in 1..Len(d) : IsDigit(d[i]))
          /\ Len(d) <= 9
       THEN [state |-> "ok", value |-> DecimalValue(d)]
       ELSE [state |-> "err"]

\* ChatWindow::handle_local_command: "exit" ends the process, every other
\* name is not handled locally
IsExit(ast) ==
    ast.kind = "Command" /\ ast.node.parsed = <<"e", "x", "i", "t">>

\* args.iter().skip_while(Whitespace).first(), matched against Text
RECURSIVE SkipWhitespace(_)
SkipWhitespace(args) ==
    IF args # <<>> /\ args[1].kind = "Whitespace"
    THEN SkipWhitespace(Tail(args))
    ELSE args

\* the argument of nick, topic and whois: the value of a first Text node,
\* todo!() for anything else
FirstArg(args) ==
    LET rest == SkipWhitespace(args)
    IN IF rest # <<>> /\ rest[1].kind = "Text"
       THEN [state |-> "ok", value |-> rest[1].value]
       ELSE ParsePanic

WithArg(kind, args) ==
    LET a == FirstArg(args)
    IN IF a.state = "ok"
       THEN [state |-> "ok", kind |-> kind, text |-> a.value]
       ELSE ParsePanic

\* the match of ChatWindow::write on the parsed line: the RequestMessage to
\* send, or the panic of todo!() and unimplemented!()
RequestMessageOf(ast, to_send) ==
    IF ast.kind = "Command"
    THEN LET name == ast.node.parsed
             args == ast.node.args
         IN CASE name = <<"p", "i", "n", "g">> ->
                   [state |-> "ok", kind |-> "Ping", text |-> <<>>]
              [] name = <<"d", "i", "s", "c", "o", "n", "n", "e", "c", "t">> ->
                   [state |-> "ok", kind |-> "Disconnect", text |-> <<>>]
              [] name = <<"n", "i", "c", "k">> -> WithArg("NewNick", args)
              [] name = <<"t", "o", "p", "i", "c">> -> WithArg("NewTopic", args)
              [] name = <<"w", "h", "o", "i", "s">> -> WithArg("WhoIs", args)
              [] OTHER -> ParsePanic
    ELSE [state |-> "ok", kind |-> "Message", text |-> to_send]

\* the lines the user submits
ClientTexts ==
    { <<"h", "i">>,
      <<" ">>,
      <<"/", "p", "i", "n", "g">>,
      <<"/", "n", "i", "c", "k", " ", "G">>,
      <<"/", "n", "i", "c", "k">>,
      <<"/", "w", "h", "o", "i", "s", " ", "@", "G">>,
      <<"/", "f", "o", "o">>,
      <<"/", "e", "x", "i", "t">> }

Res(code, message, origin) ==
    [kind |-> "Some", code |-> code, message |-> message, origin |-> origin]

\* what self.res.next() yields: a response, the end of the stream, or a
\* frame that does not decode
ClientResponses ==
    {Res(RES_ACK_MESSAGE, to_string(n), <<>>) : n \in 1..(MaxId + 1)}
    \cup {Res(RES_ACK_MESSAGE, <<"x">>, <<>>),
          Res(RES_CHAT_MESSAGE_OK, <<"h", "i">>, <<"B">>),
          Res(RES_CHAT_MESSAGE_OK, <<" ">>, <<"B">>),
          Res(RES_WELCOME, <<"W">>, <<>>),
          Res(RES_TOPIC_CHANGE, <<"c">>, <<>>),
          Res(RES_YOUR_NICK, <<"G">>, <<>>),
          [kind |-> "None"],
          [kind |-> "Err"]}

\* ChatWindow::write
ChatWindowWrite ==
    /\ wstate = "running"
    /\ Len(history) < MaxEntries
    /\ \E to_send \in ClientTexts, id \in ClientIds, sent \in BOOLEAN :
         LET p == parse(to_send)
             m == IF p.state = "panic" THEN ParsePanic
                  ELSE RequestMessageOf(p.ast, to_send)
         IN IF p.state = "ok" /\ IsExit(p.ast)
            THEN /\ wstate' = "exited"
                 /\ wlast' = [op |-> "write", text |-> to_send, id |-> NoId]
                 /\ UNCHANGED <<history, wsent>>
            ELSE IF m.state = "panic"
            THEN /\ wstate' = "panicked"
                 /\ wlast' = [op |-> "write", text |-> to_send, id |-> NoId]
                 /\ UNCHANGED <<history, wsent>>
            ELSE IF ~sent
            THEN /\ wlast' = [op |-> "write", text |-> to_send, id |-> NoId]
                 /\ UNCHANGED <<history, wsent, wstate>>
            ELSE /\ wsent' = Append(wsent, Req(m.kind, id, m.text))
                 /\ history' =
                      ChatHistoryMessage(history, to_send, wnick, id).entries
                 /\ wlast' = [op |-> "write", text |-> to_send, id |-> id]
                 /\ UNCHANGED wstate
    /\ UNCHANGED <<wtopic, wnick, prompt, plast>>
    /\ UNCHANGED <<srvVars, codecVars, parserVars, selectVars>>

\* ChatWindow::read
ChatWindowRead ==
    /\ wstate = "running"
    /\ \E res \in ClientResponses :
         /\ wlast' = [op |-> "read", res |-> res]
         /\ CASE res.kind = "Err" ->
                   UNCHANGED <<history, wstate, wtopic, wnick>>
              [] res.kind = "None" ->
                   /\ Len(history) < MaxEntries
                   /\ history' = Append(history,
                          ChatHistoryEntryError(<<"closed">>))
                   /\ UNCHANGED <<wstate, wtopic, wnick>>
              [] res.code = RES_TOPIC_CHANGE ->
                   /\ wtopic' = res.message
                   /\ UNCHANGED <<history, wstate, wnick>>
              [] res.code = RES_YOUR_NICK ->
                   /\ wnick' = res.message
                   /\ UNCHANGED <<history, wstate, wtopic>>
              [] res.code = RES_ACK_MESSAGE ->
                   LET n == parse_u32(res.message)
                   IN /\ history' = IF n.state = "ok"
                                    THEN ChatHistoryAck(history, n.value)
                                    ELSE history
                      /\ UNCHANGED <<wstate, wtopic, wnick>>
              [] OTHER ->
                   LET h == ChatHistoryMessage(history, res.message,
                                               res.origin, NoId)
                   IN /\ Len(history) < MaxEntries
                      /\ IF h.state = "panic"
                         THEN wstate' = "panicked" /\ UNCHANGED history
                         ELSE history' = h.entries /\ UNCHANGED wstate
                      /\ UNCHANGED <<wtopic, wnick>>
    /\ UNCHANGED <<wsent, prompt, plast>>
    /\ UNCHANGED <<srvVars, codecVars, parserVars, selectVars>>

ClientNext == ChatWindowWrite \/ ChatWindowRead

\* the client starts from ChatWindow::new
SpecClient == Init /\ [][ClientNext]_vars

(***************************************************************************)
(* wangerz-client-term: Prompt, the line editor.  curr is the Vec<char> of *)
(* the line, pos the cursor as an index into it.  An operation returns the *)
(* prompt it leaves, or the panic of an index that is out of bounds.       *)
(***************************************************************************)
MaxCurr == 2
MaxHistory == 1
MaxCommandBuffer == 2

Done(p) == [ok |-> TRUE, p |-> p]
IndexPanic == [ok |-> FALSE]

\* usize::saturating_sub
saturating_sub(a, b) == IF a > b THEN a - b ELSE 0

\* Ord::clamp
clamp(x, lo, hi) == IF x < lo THEN lo ELSE IF x > hi THEN hi ELSE x

\* Vec::insert(i, ch) for i <= len
InsertAt(v, i, ch) == SubSeq(v, 1, i) \o <<ch>> \o SubSeq(v, i + 1, Len(v))

\* Vec::remove(i) for i < len
RemoveAt(v, i) == SubSeq(v, 1, i) \o SubSeq(v, i + 2, Len(v))

\* Prompt::insert; Vec::insert panics at an index above the length
insert(p, ch) ==
    IF p.pos > Len(p.curr) THEN IndexPanic
    ELSE Done([p EXCEPT !.curr = InsertAt(p.curr, p.pos, ch),
                        !.pos = p.pos + 1])

\* Prompt::remove; Vec::remove panics at an index not below the length
remove(p) ==
    IF p.pos > 0
    THEN IF p.pos - 1 >= Len(p.curr) THEN IndexPanic
         ELSE Done([p EXCEPT !.pos = p.pos - 1,
                             !.curr = RemoveAt(p.curr, p.pos - 1)])
    ELSE Done(p)

\* Prompt::switch_to_mode
switch_to_mode(p, new_mode) ==
    [p EXCEPT !.mode = new_mode, !.command_buffer = <<>>]

\* Prompt::clear
clear(p) == switch_to_mode([p EXCEPT !.curr = <<>>, !.pos = 0], "Insert")

\* Prompt::flush
flush(p) ==
    clear([p EXCEPT !.history = Append(p.history, p.curr),
                    !.history_offset = 0])

\* the entry that history.get(index) yields, if any, becomes the line
TakeEntry(p, index) ==
    IF index < Len(p.history)
    THEN [p EXCEPT !.curr = p.history[index + 1],
                   !.pos = Len(p.history[index + 1])]
    ELSE p

\* Prompt::fetch_previous
fetch_previous(p) ==
    IF p.history_offset + 1 > Len(p.history) THEN p
    ELSE TakeEntry([p EXCEPT !.history_offset = p.history_offset + 1],
                   Len(p.history) - (p.history_offset + 1))

\* Prompt::fetch_next
fetch_next(p) ==
    IF p.history_offset = 0 THEN p
    ELSE TakeEntry([p EXCEPT !.history_offset = p.history_offset - 1],
                   Len(p.history) - (p.history_offset - 1))

\* Prompt::delete_until_end
delete_until_end(p) ==
    [p EXCEPT !.curr = SubSeq(p.curr, 1, Min({p.pos, Len(p.curr)}))]

NotFound == 0 - 1

\* Prompt::find_previous_index with the predicate |c| c == ch: the search
\* runs from pos - 1 down to index 1 and never looks at index 0
find_previous_index(p, ch) ==
    LET hits == {i \in 1..(p.pos - 1) : i < Len(p.curr) /\ p.curr[i + 1] = ch}
    IN IF p.pos = 0 \/ hits = {} THEN NotFound ELSE Max(hits)

\* str::starts_with
starts_with(s, prefix) ==
    Len(prefix) <= Len(s) /\ SubSeq(s, 1, Len(prefix)) = prefix

\* Prompt::attempt_autocomplete
attempt_autocomplete(p) ==
    IF p.curr = <<>> THEN p
    ELSE LET first == p.curr[1]
             searchable == CASE first = "/" -> p.commands
                             [] first = "@" -> p.nicks
                             [] OTHER -> <<>>
             to_search == Tail(p.curr)
             found == {i \in 1..Len(searchable) :
                          starts_with(searchable[i], to_search)}
         IN IF Len(p.curr) = 1 THEN p
            ELSE IF \E i \in 1..Len(p.curr) : is_whitespace(p.curr[i]) THEN p
            ELSE IF found = {} THEN p
            ELSE LET line == <<first>> \o searchable[Min(found)] \o <<" ">>
                 IN [p EXCEPT !.curr = line, !.pos = Len(line)]

Key(code) == [code |-> code]
Char(ch) == [code |-> "Char", ch |-> ch]

\* Prompt::handle_insert
handle_insert(p, key) ==
    CASE key.code = "Char" -> insert(p, key.ch)
      [] key.code = "Esc" ->
           LET q == switch_to_mode(p, "Normal")
           IN Done([q EXCEPT !.pos = saturating_sub(q.pos, 1)])
      [] key.code = "Backspace" -> remove(p)
      [] key.code = "Up" -> Done(fetch_previous(p))
      [] key.code = "Down" -> Done(fetch_next(p))
      [] key.code = "Tab" -> Done(attempt_autocomplete(p))
      [] OTHER -> Done(p)

\* the arm of handle_normal for Char(ch) when no 'F' is pending
NormalChar(p, ch) ==
    CASE ch = "i" -> Done(switch_to_mode(p, "Insert"))
      [] ch = "h" -> Done([p EXCEPT !.pos = saturating_sub(p.pos, 1)])
      [] ch = "l" ->
           Done([p EXCEPT !.pos =
               clamp(p.pos + 1, 0, saturating_sub(Len(p.curr), 1))])
      [] ch = "I" -> Done([switch_to_mode(p, "Insert") EXCEPT !.pos = 0])
      [] ch = "a" ->
           LET q == switch_to_mode(p, "Insert")
           IN Done(IF q.pos < Len(q.curr)
                   THEN [q EXCEPT !.pos = q.pos + 1] ELSE q)
      [] ch = "A" ->
           Done([switch_to_mode(p, "Insert") EXCEPT !.pos = Len(p.curr)])
      [] ch = "C" -> Done(switch_to_mode(delete_until_end(p), "Insert"))
      [] ch = "D" ->
           LET q == delete_until_end(p)
           IN Done([q EXCEPT !.pos =
                  clamp(q.pos, 0, saturating_sub(Len(q.curr), 1))])
      [] ch = "F" ->
           Done([p EXCEPT !.command_buffer = Append(p.command_buffer, "F")])
      [] ch = "d" ->
           IF p.command_buffer # <<>>
           THEN IF p.command_buffer[1] = "d"
                THEN Done([clear(p) EXCEPT !.command_buffer = <<>>])
                ELSE Done(p)
           ELSE Done([p EXCEPT !.command_buffer =
                          Append(p.command_buffer, "d")])
      [] ch = "x" ->
           IF p.curr # <<>>
           THEN IF p.pos >= Len(p.curr) THEN IndexPanic
                ELSE LET c == RemoveAt(p.curr, p.pos)
                     IN Done([p EXCEPT !.curr = c,
                                !.pos = clamp(p.pos, 0,
                                              saturating_sub(Len(c), 1))])
           ELSE Done(p)
      [] ch = "X" -> Done(clear(p))
      [] ch = "0" -> Done([p EXCEPT !.pos = 0])
      [] ch = "$" -> Done([p EXCEPT !.pos = Len(p.curr)])
      [] OTHER -> Done(p)

\* Prompt::handle_normal
handle_normal(p, key) ==
    CASE key.code = "Char"
           /\ p.command_buffer # <<>> /\ p.command_buffer[1] = "F" ->
           LET found_at == find_previous_index(p, key.ch)
           IN Done([p EXCEPT !.pos = IF found_at = NotFound
                                     THEN p.pos ELSE found_at,
                             !.command_buffer = <<>>])
      [] key.code = "Char"
           /\ ~(p.command_buffer # <<>> /\ p.command_buffer[1] = "F") ->
           NormalChar(p, key.ch)
      [] key.code = "Up" -> Done(fetch_previous(p))
      [] key.code = "Down" -> Done(fetch_next(p))
      [] key.code = "Esc" -> Done([p EXCEPT !.command_buffer = <<>>])
      [] OTHER -> Done(p)

\* Prompt::handle_key_press
handle_key_press(p, key) ==
    IF p.mode = "Insert" THEN handle_insert(p, key)
    ELSE handle_normal(p, key)

\* the keys pressed in Insert mode
InsertKeys ==
    {Char("/"), Char("a"), Key("Esc"), Key("Backspace"), Key("Up"),
     Key("Down"), Key("Tab")}

\* the keys pressed in Normal mode
NormalKeys ==
    {Char(ch) : ch \in {"h", "l", "0", "$", "i", "I", "a", "A", "x", "X",
                        "C", "D", "d", "F", "/"}}
    \cup {Key("Esc"), Key("Up"), Key("Down"), Key("Backspace")}

\* a key other than Enter reaches Prompt::handle_key_press; a panic ends
\* the process.  The line and the pending command keys are capped.
HandleKeyPress ==
    /\ ~plast.panic
    /\ \E key \in (IF prompt.mode = "Insert" THEN InsertKeys ELSE NormalKeys) :
         LET r == handle_key_press(prompt, key)
         IN /\ (prompt.mode = "Insert" /\ key.code = "Char")
                   => Len(prompt.curr) < MaxCurr
            /\ r.ok => Len(r.p.command_buffer) <= MaxCommandBuffer
            /\ plast' = [key |-> key, panic |-> ~r.ok]
            /\ prompt' = IF r.ok THEN r.p ELSE prompt
    /\ UNCHANGED <<history, wsent, wstate, wlast, wtopic, wnick>>
    /\ UNCHANGED <<srvVars, codecVars, parserVars, selectVars>>

\* Enter: the line is submitted and the prompt flushed
PromptFlush ==
    /\ ~plast.panic
    /\ Len(prompt.history) < MaxHistory
    /\ prompt' = flush(prompt)
    /\ plast' = [key |-> Key("Enter"), panic |-> FALSE]
    /\ UNCHANGED <<history, wsent, wstate, wlast, wtopic, wnick>>
    /\ UNCHANGED <<srvVars, codecVars, parserVars, selectVars>>

PromptNext == HandleKeyPress \/ PromptFlush

\* the prompt starts from Prompt::new
SpecPrompt == Init /\ [][PromptNext]_vars

(***************************************************************************)
(* Properties of the codec                                                 *)
(***************************************************************************)
\* C8 (as claimed): the framed decoder, given the bytes of encode(R) for a
\* Request R, yields exactly one record equal to R and leaves the
\* accumulator empty.
C8_RequestRoundTrip ==
    (crec.type = "request" /\ cchunk # <<>>) =>
        /\ cchunk[1].items = <<Item(crec)>>
        /\ cchunk[1].acc = <<>>

\* C9 (as claimed): the framed decoder, given the bytes of encode(S) for a
\* Response S, yields exactly one record equal to S.
C9_ResponseRoundTrip ==
    (crec.type = "response" /\ cchunk # <<>>) =>
        cchunk[1].items = <<Item(crec)>>

\* C10: feeding a byte sequence to the request decoder one byte at a time,
\* with one call of decode after each byte, gives the same records and
\* errors in the same order, and the same remaining accumulator, as feeding
\* it in one chunk and calling decode until it returns need-more-bytes.
C10_ByteWiseEqualsChunk ==
    (crec.type # "response" /\ cpos = Len(cbytes) /\ cchunk # <<>>) =>
        /\ cres = cchunk[1].items
        /\ cacc = cchunk[1].acc

\* C10 witness: both runs are over for an input that holds a frame that
\* decodes, a frame that does not, and bytes after the last terminator.
C10_Witness ==
    /\ crec.type = "none"
    /\ cpos = Len(cbytes)
    /\ cchunk # <<>>
    /\ cacc # <<>>
    /\ \E i \in 1..Len(cres) : cres[i].kind = "rec"
    /\ \E i \in 1..Len(cres) : cres[i].kind = "err"

Last(q) == q[Len(q)]

\* bs holds a complete frame: a \r immediately followed by a \n
HasTerminator(bs) == \E i \in 1..(Len(bs) - 1) : bs[i] = CR /\ bs[i + 1] = LF

\* n bytes, then \r\n, and no \r\n that starts earlier
FirstFrameIs(bs, n) ==
    /\ n + 2 <= Len(bs)
    /\ bs[n + 1] = CR
    /\ bs[n + 2] = LF
    /\ ~HasTerminator(Take(bs, n + 1))

\* C11: when the accumulator of the request decoder or of the response
\* decoder holds no \r\n after a byte arrived, decode yields neither a
\* record nor an error and the accumulator is the bytes received, unchanged;
\* a read buffer without a terminator yields nothing either.
C11_NoFrameKeepsBytes ==
    /\ []((crec.type # "wangerz" /\ ~HasTerminator(cbuf)) => ~ENABLED NextFrame)
    /\ [][(cpos' = cpos + 1 /\ ~HasTerminator(Append(cacc, cbytes[cpos + 1]))) =>
            /\ cres' = cres
            /\ cacc' = Append(cacc, cbytes[cpos + 1])
         ]_vars

\* C11 witness: the response decoder has been given the whole header of a
\* response and a lone \r but no terminator; nothing came out and every
\* byte is still in the accumulator.
C11_Witness ==
    /\ crec.type = "response"
    /\ cpos >= 16
    /\ cres = <<>>
    /\ cacc = Take(cbytes, cpos)
    /\ Last(cacc) = CR

\* C12: when several request frames are in the read buffer, successive
\* calls yield them one per call in arrival order: each call that yields a
\* record removes the bytes up to and including the first \r\n and leaves
\* the bytes after it as they were, and requests written back to back come
\* out as the same requests in the same order.
C12_FramesInOrder ==
    /\ [](crec.type = "batch" =>
            /\ Len(cout) <= Len(crec.recs)
            /\ \A i \in 1..Len(cout) : cout[i] = Item(crec.recs[i])
            /\ cbuf = EncodeBatch(Drop(crec.recs, Len(cout))))
    /\ [][(cout' # cout /\ crec.type # "wangerz" /\ cout'[Len(cout')].kind = "rec") =>
            /\ cout' = Append(cout, cout'[Len(cout')])
            /\ \E n \in 0..Len(cbuf) :
                 /\ FirstFrameIs(cbuf, n)
                 /\ cbuf' = Drop(cbuf, n + 2)
         ]_vars

\* C12 witness: three requests arrived in one read, the first two have been
\* yielded in the order written and the third is still in the buffer.
C12_Witness ==
    /\ crec.type = "batch"
    /\ Len(crec.recs) = 3
    /\ crec.recs[1].kind = "Message"
    /\ crec.recs[2].kind = "Ping"
    /\ cout = <<Item(crec.recs[1]), Item(crec.recs[2])>>
    /\ cbuf = EncodeRequest(crec.recs[3])

\* C13 (as claimed): a call on a buffer that holds a terminated frame and
\* does not yield a record yields an error, and the frame with its
\* terminator is gone from the buffer; this for the request decoder, the
\* response decoder and the wangerz-protocol response parser.
C13_DamagedFrameIsError ==
    [][(cout' # cout /\ HasTerminator(cbuf) /\ cout'[Len(cout')].kind # "rec") =>
          /\ cout'[Len(cout')].kind = "err"
          /\ \E n \in 0..Len(cbuf) :
               /\ FirstFrameIs(cbuf, n)
               /\ cbuf' = Drop(cbuf, n + 2)
      ]_vars

(***************************************************************************)
(* Properties of the server                                                *)
(***************************************************************************)
\* the decimal text of the ids the clients use
DecimalOf(id) == IF id = 7 THEN <<"7">> ELSE <<"1", "1">>

\* positions on a's outbound stream of the responses caused by c
CausedBy(a, c) == {i \in 1..Len(out[a]) : out[a][i].cause = c}

\* C1: for every request a session decodes it writes at most one AckMessage,
\* whose payload is the decimal text of the request's id; the ack is there
\* unless its own write failed (which ends the task), and it precedes every
\* other response on the issuer's stream that the same request caused.
C1_AckFirst ==
    \A a \in Addrs : \A k \in 1..Len(reqs[a]) :
        reqs[a][k].kind # "Garbage" =>
            LET idx == CausedBy(a, <<a, k>>)
                acks == {i \in idx : out[a][i].code = RES_ACK_MESSAGE}
            IN /\ Cardinality(acks) <= 1
               /\ \A i \in acks : out[a][i].message = DecimalOf(reqs[a][k].id)
               /\ \A i \in idx : \E j \in acks : j <= i
               /\ acks = {} => pc[a] = "failed" /\ k = Len(reqs[a])

\* C1 witness: an issuer has its ack and, later on the same stream, the
\* TopicChangeMessage of its own NewTopic; another has ack then Pong.
C1_Witness ==
    /\ \E a \in Addrs : \E i, j \in 1..Len(out[a]) :
         /\ i < j
         /\ out[a][i].code = RES_ACK_MESSAGE
         /\ out[a][j].code = RES_TOPIC_CHANGE_MESSAGE
         /\ out[a][i].cause = out[a][j].cause
         /\ out[a][i].cause[1] = a
    /\ \E a \in Addrs : \E i \in 2..Len(out[a]) :
         /\ out[a][i].code = RES_PONG
         /\ out[a][i - 1].code = RES_ACK_MESSAGE

\* the step is b taking the event at the head of its mailbox, and no write
\* of b failed in it
TakesEvent(b, type) ==
    /\ pc[b] = "loop"
    /\ mailbox[b] # <<>>
    /\ Head(mailbox[b]).type = type
    /\ Len(mailbox'[b]) < Len(mailbox[b])
    /\ conn'[b] = conn[b]

\* the step is a's critical section for the request kind
Dispatches(a, kind) ==
    /\ pc[a] = "dispatch"
    /\ cur[a].kind = kind
    /\ pc'[a] # "dispatch"

\* mailbox b gains exactly one event, of this type and nickname
Gains(b, type, n) ==
    /\ Len(mailbox'[b]) = Len(mailbox[b]) + 1
    /\ SubSeq(mailbox'[b], 1, Len(mailbox[b])) = mailbox[b]
    /\ Last(mailbox'[b]).type = type
    /\ Last(mailbox'[b]).nick = n

\* C2 (as claimed): when a session with nickname n sends Message(text), the
\* hub's membership, nicknames and topic are unchanged, every other session
\* in the membership map is sent one Sent event, and each session that takes
\* such an event writes exactly one ChatMessageOk with origin n and payload
\* text.
C2_EveryRecipientEmits ==
    [][/\ \A a \in Addrs :
            Dispatches(a, "Message") =>
                /\ clients' = clients
                /\ topic' = topic
                /\ \A b \in (DOMAIN clients) \ {a} :
                     RxLive(b) =>
                         /\ Gains(b, "Sent", nick[a])
                         /\ Last(mailbox'[b]).text = cur[a].text
       /\ \A b \in Addrs :
            TakesEvent(b, "Sent") =>
                /\ Len(out'[b]) = Len(out[b]) + 1
                /\ Last(out'[b]).code = RES_CHAT_MESSAGE_OK
                /\ Last(out'[b]).origin = Head(mailbox[b]).nick
                /\ Last(out'[b]).message = Head(mailbox[b]).text
      ]_vars

\* C3 (as claimed): the sender of a Message receives its own ChatMessageOk
\* after the ack: once it is back in its loop with an empty mailbox, the copy
\* is on its outbound stream.
C3_SenderGetsCopy ==
    \A a \in Addrs : \A k \in 1..Len(reqs[a]) :
        (reqs[a][k].kind = "Message" /\ pc[a] = "loop" /\ mailbox[a] = <<>>) =>
            \E i \in CausedBy(a, <<a, k>>) : out[a][i].code = RES_CHAT_MESSAGE_OK

\* C3 (amended): the sender of a Message receives the ack for it and never a
\* ChatMessageOk for its own message: no Sent event of its own is queued on
\* its mailbox, and every ChatMessageOk on a stream was caused by a Message
\* of another session and carries that message's text.
C3_NoOwnCopy ==
    \A b \in Addrs :
        /\ \A i \in 1..Len(mailbox[b]) :
             mailbox[b][i].type = "Sent" => mailbox[b][i].addr # b
        /\ \A i \in 1..Len(out[b]) :
             out[b][i].code = RES_CHAT_MESSAGE_OK =>
                 LET a == out[b][i].cause[1]
                     k == out[b][i].cause[2]
                 IN /\ a # b
                    /\ reqs[a][k].kind = "Message"
                    /\ out[b][i].message = reqs[a][k].text
                    /\ \E j \in CausedBy(a, <<a, k>>) : out[a][j].code = RES_ACK_MESSAGE

\* C3 witness: b has written the ChatMessageOk for a Message of a, and a,
\* back in its loop with nothing queued, has the ack for it.
C3_Witness ==
    \E a, b \in Addrs :
        /\ a # b
        /\ pc[a] = "loop"
        /\ mailbox[a] = <<>>
        /\ \E i \in 1..Len(out[b]) :
             /\ out[b][i].code = RES_CHAT_MESSAGE_OK
             /\ out[b][i].cause[1] = a
             /\ out[b][i].message = <<"h", "i">>

\* C4 (as claimed): every entry of the membership map belongs to a task that
\* is still running.
C4_MapIsLive == \A a \in DOMAIN clients : ~Ended(pc[a])

\* C5: a session that leaves by Disconnect, end of stream or a decode error
\* has its entry removed once: the step that removes it sends one
\* ClientDisconnected with its nickname to each session remaining in the map
\* and nothing to anyone else, the entry never comes back, the block after
\* the loop changes nothing when the entry is already gone, the task ends
\* with no entry, and a session that takes the event writes one Goodbye
\* "<nick> has left the channel".
C5_RemovedOnce ==
    /\ [](\A a \in Addrs : pc[a] = "done" => a \notin DOMAIN clients)
    /\ [][\A a \in Addrs :
            /\ (a \in DOMAIN clients /\ a \notin DOMAIN clients') =>
                 \A b \in Addrs \ {a} :
                     IF b \in DOMAIN clients /\ RxLive(b)
                     THEN Gains(b, "ClientDisconnected", clients[a])
                     ELSE mailbox'[b] = mailbox[b]
            /\ (a \notin DOMAIN clients /\ pc[a] \in {"cleanup", "done"}) =>
                 a \notin DOMAIN clients'
            /\ (a \notin DOMAIN clients /\ pc[a] = "cleanup" /\ pc'[a] = "done") =>
                 /\ clients' = clients
                 /\ \A b \in Addrs \ {a} : mailbox'[b] = mailbox[b]
            /\ TakesEvent(a, "ClientDisconnected") =>
                 /\ Len(out'[a]) = Len(out[a]) + 1
                 /\ Last(out'[a]).code = RES_GOODBYE
                 /\ Last(out'[a]).message = Head(mailbox[a]).nick \o <<" has left the channel">>
         ]_vars

\* C5 witness: a task that took a Disconnect request has ended, its entry is
\* gone, and a session that stayed has written the Goodbye for it.
C5_Witness ==
    \E a, b \in Addrs :
        /\ a # b
        /\ pc[a] = "done"
        /\ reqs[a] # <<>>
        /\ Last(reqs[a]).kind = "Disconnect"
        /\ b \in DOMAIN clients
        /\ \E i \in 1..Len(out[b]) :
             /\ out[b][i].code = RES_GOODBYE
             /\ out[b][i].cause[1] = a

\* the positions at which a task is writing to its outbound half inside a
\* critical section
WritesInCriticalSection(a) == pc[a] \in {"bundle", "nicklist"}

\* C6 (as claimed): no task holds the hub lock while it awaits an outbound
\* write.
C6_NoWriteUnderLock == \A a \in Addrs : ~(lock = a /\ WritesInCriticalSection(a))

\* C7 (as claimed): a session whose peer is still there is never terminated
\* by what other clients send: its task neither panics nor returns Err.
C7_OthersSurvive ==
    \A a \in Addrs : conn[a] = "open" => pc[a] \notin {"panicked", "failed"}

\* C14 (as claimed): a request frame whose version byte is not 1 is not
\* dispatched: nothing is written for it except a Disconnected response, and
\* the session does not go on serving.
C14_VersionRejected ==
    \A a \in Addrs : \A k \in 1..Len(reqs[a]) :
        (reqs[a][k].kind # "Garbage" /\ reqs[a][k].version # 1) =>
            /\ \A i \in CausedBy(a, <<a, k>>) : out[a][i].code = RES_DISCONNECTED
            /\ pc[a] \notin {"loop", "dispatch"}

\* C15 (as claimed): the AckMessage for a request carries the request's id
\* in the request_id field of its header.
C15_AckHeaderId ==
    \A a \in Addrs : \A i \in 1..Len(out[a]) :
        out[a][i].code = RES_ACK_MESSAGE =>
            out[a][i].request_id = reqs[a][out[a][i].cause[2]].id

\* C16: the first five responses on a new session's stream are Welcome,
\* YourNick with its generated nickname of 16 letters, TopicChange,
\* CommandList "ping nick topic whois disconnect" and NickList, all written
\* by its own start-up and none by an event or a request; TopicChange
\* carries the hub's topic and NickList the nicknames of the membership map,
\* its own included, and neither changes between the session's insertion
\* and these writes.
C16_BundleOrder ==
    /\ [](\A a \in Addrs :
            LET n == IF Len(out[a]) < 5 THEN Len(out[a]) ELSE 5
            IN /\ [i \in 1..n |-> out[a][i].code]
                    = SubSeq(<<RES_WELCOME, RES_YOUR_NICK, RES_TOPIC_CHANGE,
                               RES_COMMAND_LIST, RES_NICK_LIST>>, 1, n)
               /\ \A i \in 1..n : out[a][i].cause = <<a, 0>>
               /\ n >= 1 => out[a][1].message = <<"Welcome to solace!">>
               /\ n >= 2 => /\ Len(out[a][2].message) = NickLen
                            /\ \A i \in 1..NickLen :
                                 \E l \in 1..Len(Letters) : out[a][2].message[i] = Letters[l]
               /\ n >= 4 => out[a][4].message
                              = <<"ping", " ", "nick", " ", "topic", " ", "whois", " ", "disconnect">>
               /\ (pc[a] \in {"reg", "bundle"} \/ Len(out[a]) < 5) =>
                     \A b \in Addrs : \A i \in 1..Len(out[b]) : out[b][i].cause[1] # a
                                                                  \/ out[b][i].cause = <<a, 0>>)
    /\ [][\A a \in Addrs :
            /\ (pc[a] = "bundle" /\ pc'[a] = "bundle") => (topic' = topic /\ clients' = clients)
            /\ (pc[a] = "bundle" /\ Len(out'[a]) >= 3) => out'[a][3].message = topic
            /\ (pc[a] = "bundle" /\ Len(out'[a]) >= 5) =>
                  /\ a \in DOMAIN clients
                  /\ clients[a] = out[a][2].message
                  /\ \E order \in Orders(DOMAIN clients) :
                       out'[a][5].message = Join([i \in 1..Len(order) |-> clients[order[i]]])
         ]_vars

\* C16 witness: a session that registered when another was already there
\* has its five responses, the NickList naming both, and a later response.
C16_Witness ==
    \E a \in Addrs :
        /\ Len(out[a]) >= 6
        /\ out[a][5].code = RES_NICK_LIST
        /\ Len(out[a][5].message) = 2 * NickLen + 1
        /\ out[a][6].code = RES_ACK_MESSAGE

\* C17 (as claimed): once a ClientConnected for a new session is in
\* another session's mailbox, the five responses of the new session's
\* initial bundle have been written to it.
C17_PublishedAfterBundle ==
    \A a, b \in Addrs : \A i \in 1..Len(mailbox[b]) :
        (mailbox[b][i].type = "ClientConnected" /\ mailbox[b][i].addr = a) =>
            Len(out[a]) >= 5

\* t is s without its leading and trailing whitespace
IsTrimOf(t, s) ==
    \E i \in 1..(Len(s) + 1) : \E j \in 0..Len(s) :
        /\ t = SubSeq(s, i, j)
        /\ \A k \in 1..(i - 1) : s[k] = " "
        /\ \A k \in (j + 1)..Len(s) : s[k] = " "
        /\ t # <<>> => (t[1] # " " /\ t[Len(t)] # " ")

\* the codes and payloads b writes in this step
Written(b) ==
    [i \in 1..(Len(out'[b]) - Len(out[b])) |->
        <<out'[b][Len(out[b]) + i].code, out'[b][Len(out[b]) + i].message>>]

\* C18: the critical section of NewTopic(text) sends one TopicChanged with
\* the trimmed text and the issuer's nickname to every running session in
\* the membership map, the issuer included, and to nobody else; a session
\* that takes it writes TopicChange with the topic and directly after it
\* TopicChangeMessage, "You changed the channel topic to: <topic>" for the
\* issuer and "<issuer nick> changed the channel topic to: <topic>" for the
\* others.
C18_TopicFanOut ==
    [][\A a \in Addrs :
        /\ Dispatches(a, "NewTopic") =>
             /\ a \in DOMAIN clients
             /\ \A b \in Addrs :
                  IF b \in DOMAIN clients /\ RxLive(b)
                  THEN /\ Gains(b, "TopicChanged", nick[a])
                       /\ Last(mailbox'[b]).addr = a
                       /\ IsTrimOf(Last(mailbox'[b]).text, cur[a].text)
                  ELSE mailbox'[b] = mailbox[b]
        /\ TakesEvent(a, "TopicChanged") =>
             LET ev == Head(mailbox[a])
             IN /\ SubSeq(out'[a], 1, Len(out[a])) = out[a]
                /\ Written(a) =
                     <<<<RES_TOPIC_CHANGE, ev.text>>,
                       <<RES_TOPIC_CHANGE_MESSAGE,
                         IF ev.addr = a
                         THEN <<"You changed the channel topic to: ">> \o ev.text
                         ELSE ev.nick \o <<" changed the channel topic to: ">> \o ev.text>>>>
      ]_vars

\* C18 witness: after a NewTopic of a, both a and another session have
\* written TopicChange "c" followed by their TopicChangeMessage.
C18_Witness ==
    \E a, b \in Addrs :
        /\ a # b
        /\ \E i \in 2..Len(out[a]) :
             /\ out[a][i - 1].code = RES_TOPIC_CHANGE
             /\ out[a][i - 1].message = <<"c">>
             /\ out[a][i].code = RES_TOPIC_CHANGE_MESSAGE
             /\ out[a][i].message = <<"You changed the channel topic to: ", "c">>
        /\ \E i \in 2..Len(out[b]) :
             /\ out[b][i - 1].code = RES_TOPIC_CHANGE
             /\ out[b][i - 1].cause[1] = a
             /\ out[b][i].code = RES_TOPIC_CHANGE_MESSAGE
             /\ out[b][i].message = nick[a] \o <<" changed the channel topic to: ", "c">>

\* C19: the topic is "[No topic]" from the start; the only step that
\* changes it is the critical section of a NewTopic, which sets it to the
\* request's text without leading and trailing whitespace (the empty string
\* for whitespace-only text); so it is always the initial value or the
\* trimmed text of a NewTopic that was sent.
C19_TopicOnlyByNewTopic ==
    /\ [](\/ topic = <<"[No topic]">>
          \/ \E a \in Addrs : \E k \in 1..Len(reqs[a]) :
                /\ reqs[a][k].kind = "NewTopic"
                /\ IsTrimOf(topic, reqs[a][k].text))
    /\ [][/\ topic' # topic => \E a \in Addrs : Dispatches(a, "NewTopic")
          /\ \A a \in Addrs : Dispatches(a, "NewTopic") => IsTrimOf(topic', cur[a].text)
         ]_vars

\* C19 witness: a session set the topic to "c" and then sent a NewTopic of
\* whitespace only; the topic is the empty string.
C19_Witness ==
    /\ topic = <<>>
    /\ \E a \in Addrs :
         /\ Len(reqs[a]) = 2
         /\ reqs[a][1].text = <<" ", "c", " ">>
         /\ reqs[a][2].kind = "NewTopic"
         /\ pc[a] = "loop"

\* C20: the critical section of NewNick stores the trimmed text as the
\* issuer's nickname and sends every running session in the membership map
\* one NickChanged with the nickname the issuer had just before and the new
\* one; the issuer, taking it, writes YourNick with the new nickname and
\* then NickChange "You are now known as <new>", every other session writes
\* only NickChange "<old> is now known as <new>".
C20_NickChange ==
    [][\A a \in Addrs :
        /\ Dispatches(a, "NewNick") =>
             /\ IsTrimOf(nick'[a], cur[a].text)
             /\ clients'[a] = nick'[a]
             /\ \A b \in Addrs :
                  IF b \in DOMAIN clients /\ RxLive(b)
                  THEN /\ Gains(b, "NickChanged", nick[a])
                       /\ Last(mailbox'[b]).addr = a
                       /\ Last(mailbox'[b]).text = nick'[a]
                  ELSE mailbox'[b] = mailbox[b]
        /\ TakesEvent(a, "NickChanged") =>
             LET ev == Head(mailbox[a])
             IN /\ SubSeq(out'[a], 1, Len(out[a])) = out[a]
                /\ Written(a) =
                     IF ev.addr = a
                     THEN <<<<RES_YOUR_NICK, ev.text>>,
                            <<RES_NICK_CHANGE, <<"You are now known as ">> \o ev.text>>>>
                     ELSE <<<<RES_NICK_CHANGE, ev.nick \o <<" is now known as ">> \o ev.text>>>>
      ]_vars

\* C20 witness: a renamed itself to G; it has YourNick "G" and then "You
\* are now known as G", and another session has "<generated nickname of a>
\* is now known as G" and no YourNick after its first.
C20_Witness ==
    \E a, b \in Addrs :
        /\ a # b
        /\ nick[a] = <<"G">>
        /\ \E i \in 4..Len(out[a]) :
             /\ out[a][i - 1].code = RES_YOUR_NICK
             /\ out[a][i - 1].message = <<"G">>
             /\ out[a][i].message = <<"You are now known as ", "G">>
        /\ \E i \in 1..Len(out[b]) :
             /\ out[b][i].code = RES_NICK_CHANGE
             /\ out[b][i].message = out[a][2].message \o <<" is now known as ", "G">>
        /\ \A i \in 3..Len(out[b]) : out[b][i].code # RES_YOUR_NICK

\* C21: whenever the hub lock is free, every session inside its loop is in
\* the membership map under the nickname the session itself holds; the
\* critical section of NewNick changes both together, and a Message is
\* published under the nickname the map holds for its sender.
C21_NickInSync ==
    /\ [](lock = NoAddr =>
            \A a \in Addrs :
                pc[a] \in {"loop", "dispatch", "nicklist_lock"} =>
                    (a \in DOMAIN clients /\ clients[a] = nick[a]))
    /\ [][\A a \in Addrs :
            /\ Dispatches(a, "NewNick") => (nick'[a] = clients'[a] /\ lock' = NoAddr)
            /\ Dispatches(a, "Message") =>
                 \A b \in Addrs :
                     mailbox'[b] # mailbox[b] => Last(mailbox'[b]).nick = clients[a]
         ]_vars

\* C21 witness: a renamed itself to G and then sent a Message; the map and
\* the session both say G and the Sent event queued for b carries G.
C21_Witness ==
    \E a, b \in Addrs :
        /\ a # b
        /\ pc[a] = "loop"
        /\ nick[a] = <<"G">>
        /\ clients[a] = <<"G">>
        /\ \E i \in 1..Len(mailbox[b]) :
             /\ mailbox[b][i].type = "Sent"
             /\ mailbox[b][i].addr = a
             /\ mailbox[b][i].nick = <<"G">>

\* C22 (as claimed): a nickname, in the session and in the hub entry, is
\* never longer than 16 bytes.
C22_NickTruncated ==
    \A a \in Addrs :
        /\ ByteLen(nick[a]) <= NickLen
        /\ a \in DOMAIN clients => ByteLen(clients[a]) <= NickLen

\* the step is a writing the NickList that follows a NickChange
WritesNickList(a) == pc[a] = "nicklist" /\ Len(out'[a]) > Len(out[a])

\* C23 (as claimed): the NickList a recipient writes after its NickChange
\* for a rename lists the renamer under the new nickname of that rename.
C23_ListsRenamerUnderNew ==
    [][\A a \in Addrs :
        WritesNickList(a) =>
            LET r == cur[a].text[1]
                k == cur[a].id
            IN /\ r \in DOMAIN clients
               /\ IsTrimOf(clients[r], reqs[r][k].text)
      ]_vars

\* C23 (amended): the NickList a recipient writes after its NickChange is
\* written directly after it and is a snapshot of the membership map taken
\* when the recipient holds the hub lock for it: the nicknames then stored,
\* joined by spaces; it names the renamer under the new nickname when the
\* renamer is still in the map and has sent nothing since.
C23_NickListIsCurrent ==
    /\ [](\A a \in Addrs : \A i \in 6..Len(out[a]) :
            out[a][i].code = RES_NICK_LIST =>
                /\ out[a][i - 1].code = RES_NICK_CHANGE
                /\ out[a][i - 1].cause = out[a][i].cause)
    /\ [][\A a \in Addrs :
            WritesNickList(a) =>
                LET r == cur[a].text[1]
                    k == cur[a].id
                    list == out'[a][Len(out'[a])]
                IN /\ Len(out'[a]) = Len(out[a]) + 1
                   /\ list.code = RES_NICK_LIST
                   /\ list.cause = <<r, k>>
                   /\ lock = a
                   /\ clients' = clients
                   /\ \E order \in Orders(DOMAIN clients) :
                        list.message = Join([i \in 1..Len(order) |-> clients[order[i]]])
                   /\ (r \in DOMAIN clients /\ Len(reqs[r]) = k) =>
                        IsTrimOf(clients[r], reqs[r][k].text)
         ]_vars

\* C23 witness: a renamed itself to G while b was there; b has written,
\* after its NickChange, a NickList made of its own nickname and G.
C23_Witness ==
    \E a, b \in Addrs :
        /\ a # b
        /\ nick[a] = <<"G">>
        /\ \E i \in 6..Len(out[b]) :
             /\ out[b][i].code = RES_NICK_LIST
             /\ out[b][i].cause[1] = a
             /\ out[b][i].message \in {nick[b] \o <<" ", "G">>, <<"G", " ">> \o nick[b]}

\* C24 (as claimed): the critical section of WhoIs(n) changes no hub state
\* and queues one WhoIs event, for the issuer only; the event carries the
\* address of a session that is present and holds n, or no address when no
\* present session holds n; the issuer, taking it, writes one response:
\* WhoIs "<n> is: <addr>" or WhoIsError "User <n> not found in this channel".
C24_WhoIsFindsPresent ==
    [][\A a \in Addrs :
        /\ Dispatches(a, "WhoIs") =>
             /\ clients' = clients
             /\ topic' = topic
             /\ nick' = nick
             /\ \A b \in Addrs \ {a} : mailbox'[b] = mailbox[b]
             /\ Gains(a, "WhoIs", cur[a].text)
             /\ LET found == Last(mailbox'[a]).addr
                    holders == {b \in DOMAIN clients : ~Ended(pc[b]) /\ clients[b] = cur[a].text}
                IN IF holders = {} THEN found = NoAddr ELSE found \in holders
        /\ TakesEvent(a, "WhoIs") =>
             LET ev == Head(mailbox[a])
             IN Written(a) =
                  IF ev.addr # NoAddr
                  THEN <<<<RES_WHO_IS, ev.nick \o <<" is: ", "addr", to_string(ev.addr)>>>>>>
                  ELSE <<<<ERR_WHO_IS, <<"User ">> \o ev.nick \o <<" not found in this channel">>>>>>
      ]_vars

\* C25: a Ping is answered on the sender's stream by the ack and then one
\* Pong with payload "Pong"; the step queues nothing on any mailbox, writes
\* nothing to any other stream and leaves the membership, the nicknames and
\* the topic as they were; no response anywhere else is caused by a Ping.
C25_PingOnlyPong ==
    /\ [](\A a \in Addrs : \A k \in 1..Len(reqs[a]) :
            reqs[a][k].kind = "Ping" =>
                /\ Cardinality({i \in CausedBy(a, <<a, k>>) : out[a][i].code = RES_PONG}) <= 1
                /\ \A b \in Addrs \ {a} : CausedBy(b, <<a, k>>) = {}
                /\ \A b \in Addrs : \A i \in 1..Len(mailbox[b]) : mailbox[b][i].cause # <<a, k>>)
    /\ [][\A a \in Addrs :
            (Len(reqs'[a]) > Len(reqs[a]) /\ Last(reqs'[a]).kind = "Ping") =>
                /\ clients' = clients
                /\ topic' = topic
                /\ nick' = nick
                /\ \A b \in Addrs \ {a} : mailbox'[b] = mailbox[b] /\ out'[b] = out[b]
                /\ mailbox'[a] \in {mailbox[a], <<>>}
                /\ conn' = conn =>
                     /\ Written(a) = <<<<RES_ACK_MESSAGE, DecimalOf(Last(reqs'[a]).id)>>,
                                       <<RES_PONG, <<"Pong">>>>>>
                     /\ pc'[a] = "loop"
         ]_vars

\* C25 witness: a has the Pong for its Ping while b, registered and in its
\* loop, has nothing queued and nothing on its stream beyond its bundle and
\* the Hello.
C25_Witness ==
    \E a, b \in Addrs :
        /\ a # b
        /\ reqs[a] # <<>>
        /\ reqs[a][1] = Req("Ping", 7, <<>>)
        /\ Last(out[a]).code = RES_PONG
        /\ Last(out[a]).message = <<"Pong">>
        /\ pc[b] = "loop"
        /\ mailbox[b] = <<>>
        /\ Len(out[b]) = 6

\* C26: a mailbox changes only by an event added at its end or by its
\* oldest event taken (or by being dropped with its task), a stream only
\* grows at its end, and the responses written by a task that takes an
\* event are those of the oldest event queued; a task that waits for the
\* lock to write its NickList writes nothing else meanwhile.
C26_MailboxFifo ==
    [][\A a \in Addrs :
        /\ Len(out'[a]) >= Len(out[a])
        /\ SubSeq(out'[a], 1, Len(out[a])) = out[a]
        /\ \/ mailbox'[a] = mailbox[a]
           \/ Len(mailbox'[a]) = Len(mailbox[a]) + 1
                /\ SubSeq(mailbox'[a], 1, Len(mailbox[a])) = mailbox[a]
           \/ mailbox[a] # <<>> /\ mailbox'[a] = Tail(mailbox[a])
           \/ mailbox'[a] = <<>> /\ Ended(pc'[a])
        /\ (pc[a] = "loop" /\ mailbox[a] # <<>> /\ Len(mailbox'[a]) < Len(mailbox[a])
              /\ reqs' = reqs /\ pc'[a] # "cleanup") =>
             /\ \A i \in (Len(out[a]) + 1)..Len(out'[a]) : out'[a][i].cause = Head(mailbox[a]).cause
             /\ conn' = conn => (Len(out'[a]) > Len(out[a]) \/ pc'[a] = "panicked")
        /\ pc[a] = "nicklist_lock" => out'[a] = out[a]
      ]_vars

\* C26 witness: a has written the Hello for b and then the ChatMessageOk
\* for b's Message, in the order they were queued, and the TopicChanged of
\* b's later NewTopic is next in its mailbox.
C26_Witness ==
    \E a, b \in Addrs :
        /\ a # b
        /\ Len(out[a]) = 7
        /\ out[a][6].code = RES_HELLO
        /\ out[a][7].code = RES_CHAT_MESSAGE_OK
        /\ out[a][7].cause = <<b, 1>>
        /\ mailbox[a] # <<>>
        /\ Head(mailbox[a]).type = "TopicChanged"
        /\ Head(mailbox[a]).cause = <<b, 2>>

(***************************************************************************)
(* Properties of the message parsers (SpecParser)                          *)
(***************************************************************************)
\* parse(M) of solace-message-parser, of wangerz-message-parser, ended in a
\* panic
SolacePanics == past.state = "panic"
WangerzPanics == wtokens.state = "panic" \/ wast.state = "panic"

\* C27: parse(M) returns a message tree for every text M, the empty text, a
\* whitespace-only text, a lone sigil and text with multi-byte chars
\* included; it never panics.
C27_ParseTotal == ~SolacePanics /\ ~WangerzPanics

\* parse(M) of solace-message-parser returned the message tree ast
Returned == past.state = "ok"

\* C28: parse(M) is a Command message exactly when the grapheme at position
\* 0 of M is '/'; in every other case, leading whitespace before a '/'
\* included, it is a Normal message.
C28_CommandIffSlashAtZero ==
    Returned =>
        (past.ast.kind = "Command"
            <=> (ptext # <<>> /\ Graphemes(ptext)[1] = <<"/">>))

\* C29: only the '/' word at position 0 becomes a command: no node among the
\* args of the command message is itself a command, a later '/' word being
\* plain text there.
C29_LaterSlashIsText ==
    (Returned /\ past.ast.kind = "Command") =>
        \A i \in 1..Len(past.ast.node.args) :
            past.ast.node.args[i].kind # "Command"

\* the nodes of a tree in order, a command node followed by its args
RECURSIVE NodesInOrder(_)
NodesInOrder(nodes) ==
    IF nodes = <<>> THEN <<>>
    ELSE LET h == Head(nodes)
         IN <<h>> \o (IF h.kind = "Command" THEN NodesInOrder(h.args)
                      ELSE <<>>)
                  \o NodesInOrder(Tail(nodes))

MessageNodes(ast) ==
    IF ast.kind = "Command" THEN NodesInOrder(<<ast.node>>)
    ELSE NodesInOrder(ast.nodes)

NodeText(n) == IF n.kind = "Text" THEN n.value ELSE n.raw

RECURSIVE ConcatTexts(_)
ConcatTexts(ns) ==
    IF ns = <<>> THEN <<>> ELSE NodeText(Head(ns)) \o ConcatTexts(Tail(ns))

\* the spans of ns follow one another from 0 to n without gap or overlap
Contiguous(ns, n) ==
    /\ ns # <<>> => (ns[1].span[1] = 0 /\ Last(ns).span[2] = n)
    /\ ns = <<>> => n = 0
    /\ \A i \in 1..(Len(ns) - 1) : ns[i + 1].span[1] = ns[i].span[2]

\* the token stream holds one Eof token, the last one, with the span [n, n)
OneEofAt(toks, n) ==
    /\ Last(toks) = Token("Eof", <<>>, n, n)
    /\ \A i \in 1..(Len(toks) - 1) : toks[i].kind # "Eof"

\* C30: the nodes of parse(M) in order have contiguous spans from 0 to
\* len(M) and their raw / value texts concatenate to M; the token stream
\* ends with exactly one Eof token, whose span is [len(M), len(M)).
C30_SpansCoverText ==
    LET n == Len(Graphemes(ptext))
    IN /\ ptokens.state = "ok" => OneEofAt(ptokens.tokens, n)
       /\ Returned =>
            /\ Contiguous(MessageNodes(past.ast), n)
            /\ ConcatTexts(MessageNodes(past.ast)) = ptext

(***************************************************************************)
(* Properties of the lexers (SpecParser)                                   *)
(***************************************************************************)
IsSigil(u) == u \in {<<"/">>, <<"@">>, <<"#">>}
IsMentionSigil(u) == u \in {<<"@">>, <<"#">>}
IsMention(tok) == tok.kind \in {"UserMention", "ChannelMention"}

\* the chars of a text as units of one char each
CharUnits(t) == [i \in 1..Len(t) |-> <<t[i]>>]

\* position p (from 0) of the units us is 0 or right after whitespace
AtWordStart(us, p) == p = 0 \/ TrimIsEmpty(us[p])

\* the position at which the word around position p starts
WordStart(us, p) == Max({q \in 0..p : AtWordStart(us, q)})

\* the token that holds position p: the last one that starts at or before p
TokenAt(toks, p) ==
    toks[Max({i \in 1..Len(toks) :
                  toks[i].kind # "Eof" /\ toks[i].span[1] <= p})]

\* the positions of '@' and '#' that are neither 0 nor right after whitespace
InnerSigils(us) ==
    {p \in 1..(Len(us) - 1) :
        IsMentionSigil(us[p + 1]) /\ ~AtWordStart(us, p)}

\* every mention token starts at position 0 or right after whitespace
MentionsStartWords(us, toks) ==
    \A i \in 1..Len(toks) :
        IsMention(toks[i]) => AtWordStart(us, toks[i].span[1])

\* every '@' or '#' elsewhere is part of a Text token
InnerSigilsInText(us, toks) ==
    \A p \in InnerSigils(us) : TokenAt(toks, p).kind = "Text"

\* every '@' or '#' elsewhere, in a word that does not begin with a sigil,
\* is part of a Text token
InnerSigilsOfPlainWordsInText(us, toks) ==
    \A p \in InnerSigils(us) :
        ~IsSigil(us[WordStart(us, p) + 1]) => TokenAt(toks, p).kind = "Text"

MentionsEndAtNonAlphanumeric(t, toks) ==
    \A i \in 1..Len(toks) :
        IsMention(toks[i]) =>
            /\ \A j \in 2..Len(toks[i].value) :
                   is_alphanumeric(toks[i].value[j])
            /\ LET end == toks[i].span[1] + Len(toks[i].value)
               IN end < Len(t) => ~is_alphanumeric(t[end + 1])

\* a command token holds no whitespace, and the char after it, if any, is
\* whitespace
CommandsEndAtWhitespace(t, toks) ==
    \A i \in 1..Len(toks) :
        toks[i].kind = "Command" =>
            /\ \A j \in 1..Len(toks[i].value) :
                   ~is_whitespace(toks[i].value[j])
            /\ LET end == toks[i].span[1] + Len(toks[i].value)
               IN end < Len(t) => is_whitespace(t[end + 1])

\* C36: a mention token extends from its sigil up to, but not including,
\* the first following char that is not alphanumeric; a command token
\* extends to the first whitespace.
C36_MentionEndsAtNonAlphanumeric ==
    /\ ptokens.state = "ok" =>
         /\ MentionsEndAtNonAlphanumeric(ptext, ptokens.tokens)
         /\ CommandsEndAtWhitespace(ptext, ptokens.tokens)
    /\ wtokens.state = "ok" =>
         /\ MentionsEndAtNonAlphanumeric(ptext, wtokens.tokens)
         /\ CommandsEndAtWhitespace(ptext, wtokens.tokens)

(***************************************************************************)
(* Properties of the position query (SpecParser)                           *)
(***************************************************************************)
\* C32: for every position p of a message, Normal or Command, node_at_pos(p)
\* returns a node exactly when the grapheme at p is not whitespace, the node
\* returned is one whose span contains p, and it is never a Whitespace node.
C32_NodeIffNotWhitespace ==
    pquery.state = "ok" =>
        /\ pquery.node # NoNode
             <=> ~TrimIsEmpty(Graphemes(ptext)[pquery.pos + 1])
        /\ pquery.node # NoNode =>
             /\ pquery.node.kind # "Whitespace"
             /\ contains(pquery.node.span, pquery.pos)

(***************************************************************************)
(* Properties of the server, continued (Spec)                              *)
(***************************************************************************)
\* the session at a has written its registration bundle and is in its loop
InLoop(a) == pc[a] \in {"loop", "dispatch", "nicklist_lock", "nicklist"}

\* no request is in its critical section and every session in its loop has
\* taken every event sent to it
Drained ==
    \A b \in Addrs :
        /\ pc[b] # "dispatch"
        /\ InLoop(b) => mailbox[b] = <<>>

\* the positions of the TopicChange responses on a's outbound stream
TopicChanges(a) == {i \in 1..Len(out[a]) : out[a][i].code = RES_TOPIC_CHANGE}

ResponseClass(r) ==
    CASE r.code = RES_HELLO -> "Hello"
      [] r.code = RES_GOODBYE -> "Goodbye"
      [] r.code \in {RES_CHAT_MESSAGE_OK, RES_TOPIC_CHANGE,
                     RES_TOPIC_CHANGE_MESSAGE, RES_NICK_CHANGE}
           /\ r.cause[2] > 0 -> "Request"
      [] OTHER -> "Other"

EventClass(ev) ==
    CASE ev.type = "ClientConnected" -> "Hello"
      [] ev.type = "ClientDisconnected" -> "Goodbye"
      [] ev.type \in {"Sent", "TopicChanged", "NickChanged"} -> "Request"
      [] OTHER -> "Other"

\* what a has written and what it will write for the events queued for it,
\* in order: who caused each item and what it is
Stream(a) ==
    [i \in 1..Len(out[a]) |->
        [by |-> out[a][i].cause[1], class |-> ResponseClass(out[a][i])]]
    \o [i \in 1..Len(mailbox[a]) |->
        [by |-> mailbox[a][i].cause[1], class |-> EventClass(mailbox[a][i])]]

\* the positions of the stream s that hold items of this class caused by b
ItemsOf(s, b, class) ==
    {i \in 1..Len(s) : s[i].by = b /\ s[i].class = class}

\* the step is the insertion of b into the membership map
Joins(b) == pc[b] = "reg" /\ pc'[b] = "bundle"

\* C38: a running session a that is in the membership map when b joins is
\* sent one ClientConnected for b and writes the Hello "<nick> has joined"
\* for it; on a's stream there is at most one Hello for b, it precedes every
\* ChatMessageOk, TopicChange, TopicChangeMessage and NickChange caused by
\* b's requests, and the Goodbye for b follows all of them.
C38_HelloFirstGoodbyeLast ==
    /\ [](\A a, b \in Addrs :
            a # b =>
              LET s == Stream(a)
                  hello == ItemsOf(s, b, "Hello")
                  request == ItemsOf(s, b, "Request")
                  goodbye == ItemsOf(s, b, "Goodbye")
              IN /\ Cardinality(hello) <= 1
                 /\ \A h \in hello : \A i \in request \cup goodbye : h < i
                 /\ \A g \in goodbye : \A i \in request : i < g)
    /\ [][\A a, b \in Addrs :
            /\ (a # b /\ Joins(b) /\ a \in DOMAIN clients /\ RxLive(a)) =>
                 /\ Gains(a, "ClientConnected", nick[b])
                 /\ ItemsOf(Stream(a), b, "Hello") = {}
            /\ TakesEvent(a, "ClientConnected") =>
                 /\ Len(out'[a]) = Len(out[a]) + 1
                 /\ Last(out'[a]).code = RES_HELLO
                 /\ Last(out'[a]).message = Head(mailbox[a]).nick \o <<" has joined">>
         ]_vars

\* C38 witness: a has written the Hello for b, then a ChatMessageOk for a
\* message of b, then the Goodbye for b.
C38_Witness ==
    \E a, b \in Addrs :
        /\ a # b
        /\ Len(out[a]) >= 3
        /\ LET n == Len(out[a])
           IN /\ out[a][n - 2].code = RES_HELLO
              /\ out[a][n - 2].cause = <<b, 0>>
              /\ out[a][n - 1].code = RES_CHAT_MESSAGE_OK
              /\ out[a][n - 1].cause = <<b, 1>>
              /\ out[a][n].code = RES_GOODBYE
              /\ out[a][n].cause = <<b, 2>>

(***************************************************************************)
(* Properties of renaming (SpecNick)                                       *)
(***************************************************************************)
\* the entries of the membership map that hold the nickname n
Holders(n) == {b \in DOMAIN clients : clients[b] = n}

\* C39: NewNick is never rejected on grounds of uniqueness: no NickInUse is
\* ever written; the critical section of NewNick(n) stores trim(n) for the
\* issuer whoever else holds it and leaves the other entries alone; a
\* NickList lists every entry, a nickname held twice twice; and the WhoIs
\* event for a held nickname carries the address of one of its holders.
C39_NickNotUnique ==
    /\ [](\A a \in Addrs : \A i \in 1..Len(out[a]) :
            out[a][i].code # ERR_NICK_IN_USE)
    /\ [][\A a \in Addrs :
            /\ (Dispatches(a, "NewNick") /\ a \in DOMAIN clients) =>
                 /\ IsTrimOf(clients'[a], cur[a].text)
                 /\ nick'[a] = clients'[a]
                 /\ DOMAIN clients' = DOMAIN clients
                 /\ \A b \in (DOMAIN clients) \ {a} : clients'[b] = clients[b]
            /\ WritesNickList(a) =>
                 \E order \in Orders(DOMAIN clients) :
                     Last(out'[a]).message =
                         Join([i \in 1..Len(order) |-> clients[order[i]]])
            /\ (Dispatches(a, "WhoIs") /\ Holders(cur[a].text) # {}
                  /\ a \in DOMAIN clients) =>
                 /\ Gains(a, "WhoIs", cur[a].text)
                 /\ Last(mailbox'[a]).addr \in Holders(cur[a].text)
         ]_vars

\* C39 witness: both entries hold G, a session has written the NickList
\* "G G", and a session has been told the address of one holder of G.
C39_Witness ==
    /\ \A a \in Addrs : a \in DOMAIN clients /\ clients[a] = <<"G">>
    /\ \E a \in Addrs : \E i \in 1..Len(out[a]) :
         /\ out[a][i].code = RES_NICK_LIST
         /\ out[a][i].message = <<"G", " ", "G">>
    /\ \E a \in Addrs : \E i \in 1..Len(out[a]) :
         /\ out[a][i].code = RES_WHO_IS
         /\ Take(out[a][i].message, 2) = <<"G", " is: ">>

RecognisedCommands ==
    { <<"p", "i", "n", "g">>, <<"n", "i", "c", "k">>,
      <<"t", "o", "p", "i", "c">>, <<"w", "h", "o", "i", "s">>,
      <<"d", "i", "s", "c", "o", "n", "n", "e", "c", "t">> }

\* the line's first token is a '/name' at position 0 with a name that is
\* not one of the recognised commands
UnknownCommand(t) ==
    LET p == parse(t)
    IN /\ p.state = "ok"
       /\ p.ast.kind = "Command"
       /\ p.ast.node.span[1] = 0
       /\ p.ast.node.parsed \notin RecognisedCommands

\* C33: after the client has written a line whose first token is a '/name'
\* at position 0 that is not a recognised command, the client is still
\* running and the line was not sent as a chat message.
C33_UnknownCommandContinues ==
    (wlast.op = "write" /\ UnknownCommand(wlast.text)) =>
        /\ wstate = "running"
        /\ \A i \in 1..Len(wsent) :
              ~(wsent[i].kind = "Message" /\ wsent[i].text = wlast.text)

\* the step reads an AckMessage whose payload parses to n
ReadsAck(n) ==
    /\ wlast'.op = "read"
    /\ wlast'.res.kind = "Some"
    /\ wlast'.res.code = RES_ACK_MESSAGE
    /\ parse_u32(wlast'.res.message) = [state |-> "ok", value |-> n]

\* C34: an entry appended for an outbound request with id n starts pending;
\* every entry with id n is confirmed once an AckMessage whose payload
\* parses to n is read; a confirmed entry stays confirmed; an ack for an id
\* no entry has changes nothing; an entry without an id is never shown as
\* pending.
C34_PendingUntilAck ==
    [][/\ (wlast'.op = "write" /\ Len(history') = Len(history) + 1) =>
            LET e == history'[Len(history')]
            IN e.id = wlast'.id /\ e.id # NoId /\ ShownPending(e)
       /\ \A n \in 0..(MaxId + 1) : ReadsAck(n) =>
            /\ \A i \in 1..Len(history) :
                  history[i].id = n => history'[i].is_confirmed
            /\ (\A i \in 1..Len(history) : history[i].id # n) =>
                  history' = history
       /\ \A i \in 1..Len(history) :
            history[i].is_confirmed => history'[i].is_confirmed
       /\ \A i \in 1..Len(history') :
            history'[i].id = NoId => ~ShownPending(history'[i])]_vars

\* C40: after any sequence of key presses the cursor is within the edit
\* buffer, 0 <= pos <= len, and no key press has inserted or removed at an
\* index outside the buffer.
C40_CursorInBuffer ==
    /\ 0 <= prompt.pos
    /\ prompt.pos <= Len(prompt.curr)
    /\ ~plast.panic
====
